---------------------------- MODULE Spec2Model ----------------------------
(***************************************************************************)
(* A model of sylabs/oci-tools: the layer-squash engine (pkg/mutate),      *)
(* the mutation pipeline (pkg/mutate), and the OCI artifact store kept in  *)
(* a SIF container file (pkg/sif).                                         *)
(*                                                                         *)
(* Each subsystem has its own variables and its own specification; a       *)
(* specification keeps the variables of the other subsystems at rest.      *)
(***************************************************************************)
EXTENDS Integers, Sequences, FiniteSets, TLC

VARIABLES
    \* ---- layer-squash engine (pkg/mutate/squash.go) ----
    ls,              \* the selected layers, oldest first; each a sequence of tar headers
    li,              \* squash(): the loop index i over ls, running from Len(ls) down to 1; 0 when done
    pos,             \* the tar reader's position in layer ls[li]
    tw,              \* imageState.tw: the entries written to the output tar stream
    imageShadows,    \* imageState.imageShadows
    imageLinks,      \* imageState.imageLinks
    layerWhiteouts,  \* imageState.layerWhiteouts
    layerEntries,    \* imageState.layerEntries
    \* ---- mutation pipeline (pkg/mutate/mutate.go, image.go) ----
    baseImg,         \* the v1.Image handed to the next Apply / Squash / SquashSubset
    img,             \* the struct image returned by the last Apply
    phase,           \* "base": no mutated image yet; "built": Apply returned; "computed";
                     \* "failed": the last call returned an error; "panicked"
    err,             \* the error of the last call
    op,              \* the last call and its arguments
    napply,          \* the number of Apply calls made so far
    \* ---- artifact store (pkg/sif) ----
    sifFile,         \* OCIFileImage.sif: the data objects of the container file
    last,            \* the last call on the store and how it returned
    nops,            \* the number of calls made on the store since Write
    removed,         \* whether a RemoveBlob has succeeded since Write
    \* ---- two calls on the store at once ----
    calls,           \* for each goroutine, its call on the store and the call's locals
    sif0,            \* the container file before the two calls
    \* ---- readers of a lazily computed value (image.populate, squashfsLayer.populate) ----
    shared,          \* the struct image or squashfsLayer that the readers share
    mutex,           \* its sync.Mutex: the reader that holds it, or 0
    readers,         \* for each reader, its position in populate and what it got
    ran,             \* the computations run so far: by which reader, with which error
    \* ---- streaming readers (squash.go, tar.go, squashfs converter) ----
    conf,            \* which reader is opened: squashSelected, squashfsConverter, tarConverter
    rd,              \* what the opener returned: "unopened", "none", "rc", "convPipe", "filtPipe"
    conv,            \* the goroutine of makeTAR around the external converter
    filt,            \* the goroutine of squash, whiteoutsToOverlayFS or whiteoutsToAUFS
    convPipe,        \* the io.Pipe of makeTAR
    filtPipe,        \* the io.Pipe of the filter's goroutine
    held,             \* the temporary SquashFS file and the upstream layer reader
    cons,            \* the consumer of the returned reader
    \* ---- whiteout translator (whiteout.go) ----
    aufsIn,          \* the tar stream translated, with AUFS whiteouts
    scanned,         \* what scanAUFSWhiteouts returned
    overlayfsTar,    \* the stream whiteoutsToOverlayFS wrote
    aufsTar,         \* the stream whiteoutsToAUFS wrote from it
    wpc,             \* the translator's step
    \* ---- SquashfsLayer (squashfs converter) ----
    sqArgs,          \* the base layer, the options and the programs installed
    sqRet,           \* what SquashfsLayer returned
    \* ---- UpdateRootIndex and its scratch directory ----
    upd,             \* the call of UpdateRootIndex in flight
    scratch,         \* the scratch directory of the call
    \* ---- squash() with isShadowed step by step ----
    walk,            \* where the loop of isShadowed is
    \* ---- sifSourceSink.Get (pkg/sourcesink) ----
    get              \* the root index, the options, the entries selected, the result

squashVars == <<ls, li, pos, tw, imageShadows, imageLinks, layerWhiteouts, layerEntries>>

mutateVars == <<baseImg, img, phase, err, op, napply>>

storeVars == <<sifFile, last, nops, removed>>

concVars == <<calls, sif0>>

readVars == <<shared, mutex, readers, ran>>

pipeVars == <<conf, rd, conv, filt, convPipe, filtPipe, held, cons>>

whiteVars == <<aufsIn, scanned, overlayfsTar, aufsTar, wpc>>

sqfsVars == <<sqArgs, sqRet>>

updVars == <<upd, scratch>>

walkVars == <<walk>>

getVars == <<get>>

vars == <<squashVars, mutateVars, storeVars, concVars, readVars, pipeVars, whiteVars, sqfsVars, updVars, walkVars, getVars>>

\* What an action of one subsystem leaves alone: the other subsystems.
notSquashVars == <<mutateVars, storeVars, concVars, readVars, pipeVars, whiteVars, sqfsVars, updVars, walkVars, getVars>>
notMutateVars == <<squashVars, storeVars, concVars, readVars, pipeVars, whiteVars, sqfsVars, updVars, walkVars, getVars>>
notStoreVars == <<squashVars, mutateVars, concVars, readVars, pipeVars, whiteVars, sqfsVars, updVars, walkVars, getVars>>
notConcVars == <<squashVars, mutateVars, last, nops, removed, readVars, pipeVars, whiteVars, sqfsVars, updVars, walkVars, getVars>>
notReadVars == <<squashVars, mutateVars, storeVars, concVars, pipeVars, whiteVars, sqfsVars, updVars, walkVars, getVars>>
notPipeVars == <<squashVars, mutateVars, storeVars, concVars, readVars, whiteVars, sqfsVars, updVars, walkVars, getVars>>
notWhiteVars == <<squashVars, mutateVars, storeVars, concVars, readVars, pipeVars, sqfsVars, updVars, walkVars, getVars>>
notSqfsVars == <<squashVars, mutateVars, storeVars, concVars, readVars, pipeVars, whiteVars, updVars, walkVars, getVars>>
notUpdVars == <<squashVars, mutateVars, last, nops, removed, concVars, readVars, pipeVars, whiteVars, sqfsVars, walkVars, getVars>>
notWalkVars == <<mutateVars, storeVars, concVars, readVars, pipeVars, whiteVars, sqfsVars, updVars, getVars>>
notGetVars == <<squashVars, mutateVars, storeVars, concVars, readVars, pipeVars, whiteVars, sqfsVars, updVars, walkVars>>

-----------------------------------------------------------------------------
(* Sequences and maps.                                                      *)

Front(s) == SubSeq(s, 1, Len(s) - 1)

Range(s) == {s[k] : k \in DOMAIN s}

EmptyMap == <<>>

\* A Go map: a function whose DOMAIN is the set of keys present.
MapPut(m, k, v) == [x \in (DOMAIN m) \cup {k} |-> IF x = k THEN v ELSE m[x]]

MapDelete(m, k) == [x \in (DOMAIN m) \ {k} |-> m[x]]

-----------------------------------------------------------------------------
(* Paths.  A tar header name is a sequence of components: "a/b/foo" is      *)
(* <<"a","b","foo">>, a trailing slash is a final "" component ("a/" is     *)
(* <<"a","">>), and "./a" is <<".","a">>.  The cleaned path "." is <<>>.    *)

\* filepath.Clean on the relative names that occur: drops "." and empty components.
Clean(n) == SelectSeq(n, LAMBDA c : c # "." /\ c # "")

\* filepath.Dir: drop the final element, then Clean; the root is its own
\* directory (Dir("/") is "/").
Dir(n) == IF n = <<>> THEN <<>> ELSE IF Clean(n) = <<"/">> THEN <<"/">> ELSE Clean(Front(n))

\* filepath.Base: the last element, trailing slashes removed; "." for an empty path.
Base(n) == LET c == Clean(n) IN IF c = <<>> THEN "." ELSE c[Len(c)]

\* filepath.Join(dir, elem).
Join(dir, elem) == Clean(dir \o <<elem>>)

aufsOpaqueMarker == ".wh..wh..opq"

\* The whiteout file names of the model's universe, with the name each one removes:
\* strings.HasPrefix(base, ".wh.") and strings.TrimPrefix(base, ".wh.").
WhiteoutNames == {".wh.foo", ".wh.bar", ".wh.baz", ".wh.b", aufsOpaqueMarker}

HasWhiteoutPrefix(base) == base \in WhiteoutNames

TrimWhiteoutPrefix(base) ==
    CASE base = ".wh.foo" -> "foo"
      [] base = ".wh.bar" -> "bar"
      [] base = ".wh.baz" -> "baz"
      [] base = ".wh.b" -> "b"
      [] base = aufsOpaqueMarker -> ".wh..opq"
      [] OTHER -> base

-----------------------------------------------------------------------------
(* Tar headers and layers.                                                  *)

TypeReg == "reg"
TypeDir == "dir"
TypeLink == "link"

\* len(content) of the contents that occur.
ContentSize(c) == IF c = "" THEN 0 ELSE 3

Hdr(t, n, ln, c, pax) ==
    [Typeflag |-> t, Name |-> n, Linkname |-> ln, Size |-> ContentSize(c),
     Content |-> c, PAXRecords |-> pax]

D(n) == Hdr(TypeDir, n \o <<"">>, <<>>, "", {})
F(n, c) == Hdr(TypeReg, n, <<>>, c, {})
L(n, ln) == Hdr(TypeLink, n, ln, "", {})

NoShadow == [exact |-> FALSE, children |-> FALSE]

\* m[name] of a Go map[string]shadow: the zero value when the key is absent.
Shadow(m, name) == IF name \in DOMAIN m THEN m[name] ELSE NoShadow

\* m[target] of a Go map[string][]entry.
Links(m, target) == IF target \in DOMAIN m THEN m[target] ELSE <<>>


-----------------------------------------------------------------------------
(* The layer-squash engine: pkg/mutate/squash.go.                           *)
(* The imageState is the record                                             *)
(*   [tw, imageShadows, imageLinks, layerWhiteouts, layerEntries];          *)
(* an entry (struct entry) is [hdr, shadowed, b].                           *)

\* isShadowed's loop over the parents of name: "for name != '.' { dir := Dir(name) ... }".
RECURSIVE parentShadowed(_, _)
parentShadowed(shadows, name) ==
    IF name = <<>> THEN FALSE
    ELSE LET dir == Dir(name)
         IN  IF Shadow(shadows, dir).children THEN TRUE
             ELSE parentShadowed(shadows, dir)

\* isShadowed returns true if name is modified/removed by a later changeset.
isShadowed(shadows, name) ==
    IF Shadow(shadows, name).exact THEN TRUE ELSE parentShadowed(shadows, name)

\* A whiteout branch that copies the whiteout to the TAR stream.
recordWhiteout_written(s, hdr) == [s EXCEPT !.tw = Append(@, hdr)]

\* The whiteout branch of writeChangesetEntry: record the whiteout in layerWhiteouts.
recordWhiteout(s, hdr) ==
    LET base == Base(hdr.Name)
        opaque == base = aufsOpaqueMarker
        name == IF opaque THEN Dir(hdr.Name)
                ELSE Join(Dir(hdr.Name), TrimWhiteoutPrefix(base))
        is == Shadow(s.layerWhiteouts, name)
    IN  [s EXCEPT !.layerWhiteouts =
            MapPut(@, name, [exact |-> is.exact \/ ~opaque, children |-> TRUE])]

\* The shadow an entry written to the TAR stream casts on older layers.
writtenShadow(hdr) == [exact |-> TRUE, children |-> hdr.Typeflag # TypeDir]

\* writeChangesetEntry writes a changeset entry, which add/modify/remove image content.
writeChangesetEntry(s, hdr0) ==
    IF HasWhiteoutPrefix(Base(hdr0.Name)) THEN recordWhiteout(s, hdr0)
    ELSE
        LET name == Clean(hdr0.Name)
            hdr == [hdr0 EXCEPT !.Name = IF hdr0.Typeflag = TypeDir
                                         THEN name \o <<"">> ELSE name]
            shadowed == isShadowed(s.imageShadows, name)
        IN  IF hdr.Typeflag = TypeLink
            THEN [s EXCEPT
                    !.imageShadows = MapPut(@, name, [exact |-> TRUE, children |-> TRUE]),
                    !.imageLinks = MapPut(@, hdr.Linkname,
                        Append(Links(@, hdr.Linkname),
                               [hdr |-> hdr, shadowed |-> shadowed, b |-> ""]))]
            ELSE
                LET s1 == IF ~shadowed
                          THEN [s EXCEPT
                                  !.tw = Append(@, hdr),
                                  !.imageShadows = MapPut(@, name, writtenShadow(hdr))]
                          ELSE s
                IN  IF hdr.Typeflag # TypeDir
                    THEN [s1 EXCEPT !.layerEntries = Append(@,
                            [hdr |-> hdr, shadowed |-> shadowed,
                             b |-> IF shadowed /\ hdr.Size > 0 THEN hdr.Content ELSE ""])]
                    ELSE s1

\* The header writeHardlinksFor writes for a link that is not shadowed: the link's own
\* header, or, when the content root is not in the TAR stream, the link transformed
\* into the root.
linkHeader(link, root) ==
    IF root.shadowed
    THEN [link EXCEPT
            !.hdr.Typeflag = root.hdr.Typeflag,
            !.hdr.Linkname = root.hdr.Linkname,
            !.hdr.Size = root.hdr.Size,
            !.hdr.PAXRecords = IF root.hdr.PAXRecords # {} THEN root.hdr.PAXRecords ELSE @,
            !.b = root.b]
    ELSE link

\* writeHardlinksFor evaluates all hard links that point to root through target name,
\* either directly or transitively.  Returns [root, s].
RECURSIVE writeHardlinksFor(_, _, _)
RECURSIVE writeLinks(_, _, _)
writeHardlinksFor(target, root, s) ==
    writeLinks(Links(s.imageLinks, target), root,
               [s EXCEPT !.imageLinks = MapDelete(@, target)])

\* The loop of writeHardlinksFor over the links that reference target.
writeLinks(links, root, s) ==
    IF links = <<>> THEN [root |-> root, s |-> s]
    ELSE
        LET link0 == Head(links)
            link == IF ~link0.shadowed THEN linkHeader(link0, root) ELSE link0
            root1 == IF ~link0.shadowed /\ root.shadowed THEN link ELSE root
            s1 == IF ~link0.shadowed
                  THEN [s EXCEPT !.tw = Append(@, [link.hdr EXCEPT !.Content = link.b])]
                  ELSE s
            r == writeHardlinksFor(link.hdr.Name, root1, s1)
        IN  writeLinks(Tail(links), r.root, r.s)

\* commitChangeset: merge the effects of whiteouts in this layer to imageShadows.
mergeWhiteouts(shadows, whiteouts) ==
    [name \in (DOMAIN shadows) \cup (DOMAIN whiteouts) |->
        IF name \in DOMAIN whiteouts
        THEN [exact |-> whiteouts[name].exact \/ Shadow(shadows, name).exact,
              children |-> whiteouts[name].children \/ Shadow(shadows, name).children]
        ELSE shadows[name]]

\* commitChangeset: write any hard links that reference content in this layer.
RECURSIVE writeLayerLinks(_, _)
writeLayerLinks(entries, s) ==
    IF entries = <<>> THEN s
    ELSE writeLayerLinks(Tail(entries),
                         writeHardlinksFor(Head(entries).hdr.Name, Head(entries), s).s)

\* commitChangeset is called each time we are done processing a changeset.
commitChangeset(s) ==
    LET s1 == [s EXCEPT !.imageShadows = mergeWhiteouts(@, s.layerWhiteouts),
                        !.layerWhiteouts = EmptyMap]
    IN  [writeLayerLinks(s1.layerEntries, s1) EXCEPT !.layerEntries = <<>>]

imageState ==
    [tw |-> tw, imageShadows |-> imageShadows, imageLinks |-> imageLinks,
     layerWhiteouts |-> layerWhiteouts, layerEntries |-> layerEntries]

SetImageState(s) ==
    /\ tw' = s.tw
    /\ imageShadows' = s.imageShadows
    /\ imageLinks' = s.imageLinks
    /\ layerWhiteouts' = s.layerWhiteouts
    /\ layerEntries' = s.layerEntries

-----------------------------------------------------------------------------
(* The layers squash() is run on.  The pool holds the changesets of the     *)
(* test corpus (test/images/gen_images.go: whiteout-explicit-file,          *)
(* whiteout-explicit-dir, whiteout-opaque-end, hard-link-1,                 *)
(* hard-link-delete-1, hard-link-delete-4) and two changesets in which a    *)
(* directory is replaced by a file and created again.                       *)

MaxLayers == 3

pA == <<"a">>
pB == <<"a", "b">>
pFoo == <<"a", "b", "foo">>
pBar == <<"a", "b", "bar">>
pBaz == <<"a", "b", "baz">>
pABar == <<"a", "bar">>

LayerPool ==
    { <<D(pA), D(pB), F(pFoo, "foo")>>,
      <<D(pA), D(pB), F(<<"a", "b", ".wh.foo">>, ""), F(pBar, "bar")>>,
      <<D(pA), F(<<"a", ".wh.b">>, ""), F(pABar, "bar")>>,
      <<D(pA), F(pABar, "bar"), F(<<"a", aufsOpaqueMarker>>, "")>>,
      <<D(pA), D(pB), F(pFoo, "foo"), L(pBar, pFoo)>>,
      <<D(pA), D(pB), F(pFoo, "foo"), L(pBar, pFoo), L(pBaz, pFoo)>>,
      <<D(pA), D(pB), L(pBaz, pBar)>>,
      <<D(pA), D(pB), F(<<"a", "b", ".wh.bar">>, "")>>,
      <<D(pA), D(pB), F(<<"a", "b", ".wh.foo">>, "")>>,
      <<D(pA), F(pB, "b")>>,
      <<D(pA), D(pB)>>,
      <<D(<<".", "a">>), D(<<".", "a", "b">>), F(<<".", "a", "b", "foo">>, "foo"),
        L(<<".", "a", "b", "bar">>, <<".", "a", "b", "foo">>)>> }

\* The cleaned paths that occur.
Paths == {pA, pB, pFoo, pBar, pBaz, pABar}

IsWhiteout(h) == HasWhiteoutPrefix(Base(h.Name))

IsPrefix(a, b) == Len(a) <= Len(b) /\ SubSeq(b, 1, Len(a)) = a

IsAncestor(a, p) == Len(a) < Len(p) /\ IsPrefix(a, p)

\* The path a file whiteout removes; the directory an opaque marker applies to.
WhiteoutTarget(h) ==
    IF Base(h.Name) = aufsOpaqueMarker THEN Dir(h.Name)
    ELSE Join(Dir(h.Name), TrimWhiteoutPrefix(Base(h.Name)))

\* Layer l hides path p of an older layer: it holds a file whiteout for p or for an
\* ancestor of p, an opaque marker on an ancestor directory of p, or a non-directory
\* entry at an ancestor of p.
Hides(l, p) ==
    \E k \in DOMAIN l :
        LET h == l[k]
        IN  IF IsWhiteout(h)
            THEN IF Base(h.Name) = aufsOpaqueMarker
                 THEN IsAncestor(WhiteoutTarget(h), p)
                 ELSE IsPrefix(WhiteoutTarget(h), p)
            ELSE h.Typeflag # TypeDir /\ IsAncestor(Clean(h.Name), p)

Occurs(l, p) == \E k \in DOMAIN l : ~IsWhiteout(l[k]) /\ Clean(l[k].Name) = p

\* Path p, present in layer i of stack, is not hidden by a newer layer up to layer n.
SurvivesFrom(stack, i, n, p) ==
    /\ Occurs(stack[i], p)
    /\ \A j \in (i + 1)..n : ~Hides(stack[j], p)

\* Path p is visible in the overlay of the first n layers of stack.
VisibleIn(stack, n, p) == \E i \in 1..n : SurvivesFrom(stack, i, n, p)

\* The newest layer that contains p.
NewestWith(stack, p) ==
    CHOOSE i \in DOMAIN stack :
        Occurs(stack[i], p) /\ \A j \in (i + 1)..Len(stack) : ~Occurs(stack[j], p)

\* The non-whiteout entry of layer l at path p.
EntryAt(l, p) == l[CHOOSE k \in DOMAIN l : ~IsWhiteout(l[k]) /\ Clean(l[k].Name) = p]

\* The newest of the first n layers that contains p.
NewestWithin(stack, n, p) ==
    CHOOSE i \in 1..n :
        Occurs(stack[i], p) /\ \A j \in (i + 1)..n : ~Occurs(stack[j], p)

\* An image a container build produces: the target of every hard link is a file
\* present in the overlay of the link's own layer and the layers below it.
ValidStack(stack) ==
    \A i \in DOMAIN stack : \A k \in DOMAIN stack[i] :
        LET h == stack[i][k]
        IN  h.Typeflag = TypeLink =>
                /\ VisibleIn(stack, i, Clean(h.Linkname))
                /\ EntryAt(stack[NewestWithin(stack, i, Clean(h.Linkname))],
                           Clean(h.Linkname)).Typeflag # TypeDir

Stacks ==
    {st \in UNION {[1..n -> LayerPool] : n \in 1..MaxLayers} : ValidStack(st)}

SquashInit ==
    /\ ls \in Stacks
    /\ li = Len(ls)
    /\ pos = 1
    /\ tw = <<>>
    /\ imageShadows = EmptyMap
    /\ imageLinks = EmptyMap
    /\ layerWhiteouts = EmptyMap
    /\ layerEntries = <<>>

\* squash(): "hdr, err := tr.Next(); is.writeChangesetEntry(hdr, tr)".
SquashEntry ==
    /\ li >= 1
    /\ pos <= Len(ls[li])
    /\ SetImageState(writeChangesetEntry(imageState, ls[li][pos]))
    /\ pos' = pos + 1
    /\ UNCHANGED <<ls, li, notSquashVars>>

\* squash(): tr.Next() returns io.EOF; "is.commitChangeset()" and on to the next older layer.
SquashCommit ==
    /\ li >= 1
    /\ pos > Len(ls[li])
    /\ SetImageState(commitChangeset(imageState))
    /\ li' = li - 1
    /\ pos' = 1
    /\ UNCHANGED <<ls, notSquashVars>>

SquashDone == li = 0

SquashNext == SquashEntry \/ SquashCommit

SquashIdle ==
    /\ ls = <<>>
    /\ li = 0
    /\ pos = 1
    /\ tw = <<>>
    /\ imageShadows = EmptyMap
    /\ imageLinks = EmptyMap
    /\ layerWhiteouts = EmptyMap
    /\ layerEntries = <<>>

-----------------------------------------------------------------------------
(* The mutation pipeline: layer selectors (layer selector file), mutations  *)
(* (mutate.go) and the mutated image (image.go).                            *)
(* Go indexes are 0-based and are kept 0-based in the operators' arguments; *)
(* a sequence is indexed at i + 1.                                          *)

errNil == "nil"
errInvalidLayerIndex == "invalid layer index"
errLayerIndexOutOfRange == "layer index out of range"
errUnexpectedConfigFileType == "unexpected config file type"
errLayerNotFound == "layer not found"
\* SetLayer with a negative index: img.overrides[i] panics in the Go runtime.
panicIndexOutOfRange == "panic: runtime error: index out of range"

RECURSIVE Concat(_)
Concat(ss) == IF ss = <<>> THEN <<>> ELSE Head(ss) \o Concat(Tail(ss))

\* A v1.Layer: its digest (compressed hash) and its diff ID (uncompressed hash).
Layer(digest, diffID) == [digest |-> digest, diffID |-> diffID]

\* The nil v1.Layer of a fresh overrides slice.
NilLayer == Layer(<<>>, <<>>)

\* partial.Descriptor(l)
Descriptor(l) == [Digest |-> l.digest]

DiffIDsOf(layers) == [k \in DOMAIN layers |-> layers[k].diffID]

\* tarball.LayerFromOpener over squash(base, s, pw): the content, hence the diff
\* ID, is determined by the selected layers in order; the digest is the hash of
\* the compressed stream.
squashedLayer(selected) ==
    LET diffID == <<"squash{">> \o Concat(DiffIDsOf(selected)) \o <<"}">>
    IN  Layer(<<"gzip">> \o diffID, diffID)

OCIConfigJSON == "application/vnd.oci.image.config.v1+json"
DockerConfigJSON == "application/vnd.docker.container.image.v1+json"
SylabsConfigJSON == "application/vnd.sylabs.container.image.v1+json"

\* types.MediaType.IsConfig
IsConfig(t) == t \in {OCIConfigJSON, DockerConfigJSON}

\* Values of the "any" config file: a *v1.ConfigFile, some other struct, or nil.
ConfigFileOf(diffIDs, history) == [kind |-> "ConfigFile", DiffIDs |-> diffIDs, History |-> history]
CustomConfig == [kind |-> "custom", DiffIDs |-> <<>>, History |-> <<>>]
NilConfig == [kind |-> "nil", DiffIDs |-> <<>>, History |-> <<>>]

\* json.Marshal and v1.SHA256, by what they keep: the bytes determine the value,
\* the digest determines the bytes.
Marshal(v) == [json |-> v]
SHA256(b) == [sha256 |-> b]
\* The size v1.SHA256 returns with the digest: the length of the bytes it read.
SizeOf(b) == [len |-> b]

\* ---- layerSelector ----

NilSelector == [isNil |-> TRUE, idx |-> <<>>]
Selector(idx) == [isNil |-> FALSE, idx |-> idx]

rangeLayerSelector(start, end) ==
    IF start >= end
    THEN Selector(<<>>)
    ELSE Selector([k \in 1..(end - start) |-> start + k - 1])

RECURSIVE indexLoop(_, _, _, _)
indexLoop(idx, k, i, n) ==
    IF k > Len(idx)
    THEN [selected |-> FALSE, err |-> errNil]
    ELSE LET index == IF idx[k] < 0 THEN idx[k] + n ELSE idx[k]
         IN  IF index < 0 \/ n <= index
             THEN [selected |-> FALSE, err |-> errLayerIndexOutOfRange]
             ELSE IF index = i
                  THEN [selected |-> TRUE, err |-> errNil]
                  ELSE indexLoop(idx, k + 1, i, n)

indexSelected(s, i, n) ==
    IF s.isNil
    THEN [selected |-> TRUE, err |-> errNil]
    ELSE indexLoop(s.idx, 1, i, n)

RECURSIVE selectLoop(_, _, _, _)
selectLoop(s, layers, i, selected) ==
    IF i >= Len(layers)
    THEN [layers |-> selected, err |-> errNil]
    ELSE LET r == indexSelected(s, i, Len(layers))
         IN  IF r.err # errNil
             THEN [layers |-> <<>>, err |-> r.err]
             ELSE selectLoop(s, layers, i + 1,
                             IF r.selected THEN Append(selected, layers[i + 1]) ELSE selected)

layersSelected(s, im) ==
    IF s.isNil
    THEN [layers |-> im.layers, err |-> errNil]
    ELSE selectLoop(s, im.layers, 0, <<>>)

\* ---- struct image and the mutations ----

NoManifest ==
    [Config |-> [MediaType |-> "", Digest |-> SHA256(Marshal(NilConfig)),
                 Size |-> SizeOf(Marshal(NilConfig))],
     Layers |-> <<>>]

NoBase == [layers |-> <<>>, manifest |-> NoManifest, configFile |-> NilConfig,
           rawConfigFile |-> Marshal(NilConfig)]

\* The zero image: no base, nothing computed.
NoImage ==
    [base |-> NoBase, overrides |-> <<>>, history |-> <<>>,
     configFileOverride |-> NilConfig, configTypeOverride |-> "",
     computed |-> FALSE, diffIDs |-> <<>>, byDiffID |-> EmptyMap, byDigest |-> EmptyMap,
     manifest |-> NoManifest, configFile |-> NilConfig, rawConfigFile |-> Marshal(NilConfig)]

SetLayer(im, i, l) ==
    IF i >= Len(im.overrides)
    THEN [img |-> im, err |-> errInvalidLayerIndex]
    ELSE IF i < 0
         THEN [img |-> im, err |-> panicIndexOutOfRange]
         ELSE [img |-> [im EXCEPT !.overrides[i + 1] = l], err |-> errNil]

ReplaceLayers(im, l) == [img |-> [im EXCEPT !.overrides = <<l>>], err |-> errNil]

RECURSIVE replaceLoop(_, _, _, _, _, _)
replaceLoop(im, s, l, i, found, overrides) ==
    IF i >= Len(im.overrides)
    THEN [img |-> [im EXCEPT !.overrides = overrides], err |-> errNil]
    ELSE LET r == indexSelected(s, i, Len(im.overrides))
         IN  IF r.err # errNil
             THEN [img |-> im, err |-> r.err]
             ELSE IF ~r.selected
                  THEN replaceLoop(im, s, l, i + 1, found, Append(overrides, im.overrides[i + 1]))
                  ELSE IF ~found
                       THEN replaceLoop(im, s, l, i + 1, TRUE, Append(overrides, l))
                       ELSE replaceLoop(im, s, l, i + 1, found, overrides)

replaceSelectedLayers(im, s, l) == replaceLoop(im, s, l, 0, FALSE, <<>>)

\* img.history is a pointer: <<>> is nil, <<h>> points at h.
SetHistory(im, history) == [img |-> [im EXCEPT !.history = <<history>>], err |-> errNil]

SetConfig(im, configFile, configType) ==
    [img |-> [im EXCEPT !.configFileOverride = configFile, !.configTypeOverride = configType],
     err |-> errNil]

\* A Mutation value: the closure, as the function it wraps and what it captured.
Mutation(f, i, l, s, history, configFile, configType) ==
    [f |-> f, i |-> i, l |-> l, s |-> s, history |-> history,
     configFile |-> configFile, configType |-> configType]

mSetLayer(i, l) == Mutation("SetLayer", i, l, NilSelector, "", NilConfig, "")
mReplaceLayers(l) == Mutation("ReplaceLayers", 0, l, NilSelector, "", NilConfig, "")
mReplaceSelectedLayers(s, l) == Mutation("replaceSelectedLayers", 0, l, s, "", NilConfig, "")
mSetHistory(h) == Mutation("SetHistory", 0, NilLayer, NilSelector, h, NilConfig, "")
mSetConfig(cf, ct) == Mutation("SetConfig", 0, NilLayer, NilSelector, "", cf, ct)

\* m(&img)
CallMutation(m, im) ==
    CASE m.f = "SetLayer" -> SetLayer(im, m.i, m.l)
      [] m.f = "ReplaceLayers" -> ReplaceLayers(im, m.l)
      [] m.f = "replaceSelectedLayers" -> replaceSelectedLayers(im, m.s, m.l)
      [] m.f = "SetHistory" -> SetHistory(im, m.history)
      [] OTHER -> SetConfig(im, m.configFile, m.configType)

RECURSIVE applyLoop(_, _)
applyLoop(im, ms) ==
    IF ms = <<>>
    THEN [img |-> im, err |-> errNil]
    ELSE LET r == CallMutation(Head(ms), im)
         IN  IF r.err # errNil THEN [img |-> NoImage, err |-> r.err] ELSE applyLoop(r.img, Tail(ms))

\* Apply(base, ms...): isBase says that base itself is returned.
Apply(b, ms) ==
    IF Len(ms) = 0
    THEN [isBase |-> TRUE, img |-> NoImage, err |-> errNil]
    ELSE LET fresh == [NoImage EXCEPT !.base = b,
                                      !.overrides = [k \in 1..Len(b.layers) |-> NilLayer]]
             r == applyLoop(fresh, ms)
         IN  [isBase |-> FALSE, img |-> r.img, err |-> r.err]

\* byDiffID / byDigest after the loop of populate: a later layer with the same
\* key overwrites an earlier one.
LastWith(layers, key(_), h) ==
    layers[CHOOSE k \in DOMAIN layers :
               /\ key(layers[k]) = h
               /\ \A j \in DOMAIN layers : key(layers[j]) = h => j <= k]

diffIDKey(l) == l.diffID
digestKey(l) == l.digest

\* A populate that leaves the config's diff IDs as they were.
setRootFSDiffIDs_kept(cf, diffIDs) == cf

\* cf.RootFS.DiffIDs = diffIDs
setRootFSDiffIDs(cf, diffIDs) == [cf EXCEPT !.DiffIDs = diffIDs]

\* cf.History = []v1.History{*img.history}, if img.history is set
setHistory(cf, history) == IF history # <<>> THEN [cf EXCEPT !.History = history] ELSE cf

\* The work of populate once the lock is held and computed is false.
compute(im) ==
    LET manifest0 == im.base.manifest
        bls == im.base.layers
        eff == [k \in DOMAIN im.overrides |->
                    IF im.overrides[k] = NilLayer THEN bls[k] ELSE im.overrides[k]]
        layers == [k \in DOMAIN eff |-> Descriptor(eff[k])]
        diffIDs == DiffIDsOf(eff)
        byDiffID == [h \in Range(diffIDs) |-> LastWith(eff, diffIDKey, h)]
        byDigest == [h \in {eff[k].digest : k \in DOMAIN eff} |-> LastWith(eff, digestKey, h)]
        notOverridden == im.configFileOverride = NilConfig
        configType == IF notOverridden THEN manifest0.Config.MediaType
                                       ELSE im.configTypeOverride
        configFile0 == IF notOverridden /\ IsConfig(configType) THEN im.base.configFile
                                                                ELSE im.configFileOverride
    IN  IF IsConfig(configType) /\ configFile0.kind # "ConfigFile"
        THEN [img |-> im, err |-> errUnexpectedConfigFileType]
        ELSE LET configFile == IF IsConfig(configType)
                               THEN setHistory(setRootFSDiffIDs(configFile0, diffIDs), im.history)
                               ELSE configFile0
                 config == IF configFile # NilConfig THEN Marshal(configFile)
                                                     ELSE im.base.rawConfigFile
                 manifest == [Config |-> [MediaType |-> configType, Digest |-> SHA256(config),
                                          Size |-> SizeOf(config)],
                              Layers |-> layers]
             IN  [img |-> [im EXCEPT !.computed = TRUE, !.diffIDs = diffIDs,
                                     !.byDiffID = byDiffID, !.byDigest = byDigest,
                                     !.manifest = manifest, !.configFile = configFile,
                                     !.rawConfigFile = config],
                  err |-> errNil]

populate(im) == IF im.computed THEN [img |-> im, err |-> errNil] ELSE compute(im)

\* The accessors below are those of a populated image.
LayerByDiffID(im, h) ==
    IF h \in DOMAIN im.byDiffID
    THEN [layer |-> im.byDiffID[h], err |-> errNil]
    ELSE [layer |-> NilLayer, err |-> errLayerNotFound]

LayerByDigest(im, h) ==
    IF h \in DOMAIN im.byDigest
    THEN [layer |-> im.byDigest[h], err |-> errNil]
    ELSE [layer |-> NilLayer, err |-> errLayerNotFound]

Layers(im) == [k \in DOMAIN im.diffIDs |-> LayerByDiffID(im, im.diffIDs[k]).layer]

ConfigFile(im) ==
    IF im.configFile.kind = "ConfigFile"
    THEN [cf |-> im.configFile, err |-> errNil]
    ELSE [cf |-> NilConfig, err |-> errUnexpectedConfigFileType]

squashSelected(b, s) ==
    LET sel == layersSelected(s, b)
    IN  IF sel.err # errNil
        THEN [isBase |-> FALSE, img |-> NoImage, err |-> sel.err]
        ELSE Apply(b, <<mReplaceSelectedLayers(s, squashedLayer(sel.layers))>>)

Squash(b) == squashSelected(b, NilSelector)

SquashSubset(b, start, end) == squashSelected(b, rangeLayerSelector(start, end))

\* ---- inputs ----

MaxBaseLayers == 3
MaxMutations == 2
MaxApply == 2

lA == Layer(<<"dA">>, <<"uA">>)
lB == Layer(<<"dB">>, <<"uB">>)
lC == Layer(<<"dC">>, <<"uC">>)
lD == Layer(<<"dD">>, <<"uD">>)
lX == Layer(<<"dX">>, <<"uX">>)
\* The content of lA under another compression: the diff ID of lA, another digest.
lY == Layer(<<"dY">>, <<"uA">>)

BaseLayers == <<lA, lB, lC, lD>>

\* A well-formed image: its config lists the diff IDs of its layers.
BaseImage(layers, configType) ==
    LET cf == IF IsConfig(configType) THEN ConfigFileOf(DiffIDsOf(layers), <<"h0">>)
                                      ELSE CustomConfig
    IN  [layers |-> layers,
         manifest |-> [Config |-> [MediaType |-> configType, Digest |-> SHA256(Marshal(cf)),
                                   Size |-> SizeOf(Marshal(cf))],
                       Layers |-> [k \in DOMAIN layers |-> Descriptor(layers[k])]],
         configFile |-> cf,
         rawConfigFile |-> Marshal(cf)]

\* The last image holds one content twice, under two compressions.
BaseImages ==
    {BaseImage(SubSeq(BaseLayers, 1, n), t) :
        n \in 0..MaxBaseLayers, t \in {OCIConfigJSON, SylabsConfigJSON}}
    \cup {BaseImage(<<lA, lY>>, OCIConfigJSON)}

Indexes == -1..(MaxBaseLayers + 1)

Mutations ==
    {mSetLayer(i, lX) : i \in -1..MaxBaseLayers}
    \cup {mReplaceLayers(lY), mSetHistory("h1")}
    \cup {mSetConfig(ConfigFileOf(<<>>, <<>>), DockerConfigJSON),
          mSetConfig(ConfigFileOf(<<>>, <<>>), SylabsConfigJSON),
          mSetConfig(CustomConfig, SylabsConfigJSON),
          mSetConfig(CustomConfig, OCIConfigJSON)}

MutationSeqs == UNION {[1..n -> Mutations] : n \in 0..MaxMutations}

\* ---- the mutation pipeline as a state machine ----

Call(name, ms, start, end) == [call |-> name, ms |-> ms, start |-> start, end |-> end]
NoCall == Call("none", <<>>, 0, 0)

MutateInit ==
    /\ baseImg \in BaseImages
    /\ img = NoImage
    /\ phase = "base"
    /\ err = errNil
    /\ op = NoCall
    /\ napply = 0

MutateIdle ==
    /\ baseImg = NoBase
    /\ img = NoImage
    /\ phase = "base"
    /\ err = errNil
    /\ op = NoCall
    /\ napply = 0

\* The caller receives r from Apply, Squash or SquashSubset.
Returned(r) ==
    /\ img' = r.img
    /\ err' = r.err
    /\ phase' = IF r.err = panicIndexOutOfRange THEN "panicked"
                ELSE IF r.err # errNil THEN "failed"
                ELSE IF r.isBase THEN "base" ELSE "built"
    /\ napply' = napply + 1
    /\ UNCHANGED <<baseImg, notMutateVars>>

CanCall == phase = "base" /\ napply < MaxApply

ApplyCall ==
    /\ CanCall
    /\ \E ms \in MutationSeqs :
        /\ Returned(Apply(baseImg, ms))
        /\ op' = Call("Apply", ms, 0, 0)

SquashCall ==
    /\ CanCall
    /\ Returned(Squash(baseImg))
    /\ op' = Call("Squash", <<>>, 0, 0)

SquashSubsetCall ==
    /\ CanCall
    /\ \E start \in Indexes, end \in Indexes :
        /\ Returned(SquashSubset(baseImg, start, end))
        /\ op' = Call("SquashSubset", <<>>, start, end)

\* Apply with the mutations that bear on the config: SetConfig with a nil, a
\* standard and a custom config value, SetHistory and ReplaceLayers.
ConfigMutations ==
    {mSetConfig(NilConfig, DockerConfigJSON),
     mSetConfig(ConfigFileOf(<<>>, <<>>), DockerConfigJSON),
     mSetConfig(CustomConfig, SylabsConfigJSON),
     mSetHistory("h1"), mReplaceLayers(lY)}

ConfigMutationSeqs == UNION {[1..n -> ConfigMutations] : n \in 0..MaxMutations}

ApplyConfigCall ==
    /\ CanCall
    /\ \E ms \in ConfigMutationSeqs :
        /\ Returned(Apply(baseImg, ms))
        /\ op' = Call("Apply", ms, 0, 0)

\* The first observation of the mutated image (Manifest, ConfigFile, Layers, ...).
Populate ==
    /\ phase = "built"
    /\ LET r == populate(img)
       IN  /\ img' = r.img
           /\ err' = r.err
           /\ phase' = IF r.err = errNil THEN "computed" ELSE "failed"
    /\ UNCHANGED <<baseImg, op, napply, notMutateVars>>

\* The mutated image as a v1.Image, seen through its accessors.
AsBase(im) ==
    [layers |-> Layers(im), manifest |-> im.manifest, configFile |-> im.configFile,
     rawConfigFile |-> im.rawConfigFile]

\* The caller hands the mutated image to a further Apply, Squash or SquashSubset.
Rebase ==
    /\ phase = "computed"
    /\ napply < MaxApply
    /\ baseImg' = AsBase(img)
    /\ img' = NoImage
    /\ op' = NoCall
    /\ phase' = "base"
    /\ UNCHANGED <<err, napply, notMutateVars>>

MutateNext == ApplyCall \/ SquashCall \/ SquashSubsetCall \/ Populate \/ Rebase

ConfigNext == ApplyConfigCall \/ Populate \/ Rebase

-----------------------------------------------------------------------------
(* The OCI artifact store kept in a SIF container file (pkg/sif).           *)
(*                                                                          *)
(* A blob is its content; its digest is SHA256 of the content, so a         *)
(* descriptor determines the blob it names.  The container file is a bag    *)
(* of data objects: a function from the objects it holds to the number of   *)
(* copies of each.                                                          *)

errObjectNotFound == "object not found"
errMultipleObjectsFound == "multiple objects found"
errUnexpectedMediaType == "unexpected media type"
errDescriptorNotFoundInIndex == "descriptor not found in index"
ErrNoMatch == "no match found"
errLayerNotFoundInImage == "layer not found in image"
ErrMultipleMatches == "multiple matches found"

OCIManifestSchema1 == "application/vnd.oci.image.manifest.v1+json"
OCIImageIndex == "application/vnd.oci.image.index.v1+json"
OCILayer == "application/vnd.oci.image.layer.v1.tar+gzip"
\* A media type that is neither an image manifest nor an index.
OtherArtifact == "application/vnd.sylabs.artifact.v1"

\* types.MediaType.IsImage / IsIndex, and the cases of cacheIndexBlobs.
IsImage(mt) == mt = OCIManifestSchema1
IsIndex(mt) == mt = OCIImageIndex

\* The content of a blob: a layer, a config, an artifact (named by id), an
\* image manifest or an index manifest (given by the descriptors it lists).
BlobOf(kind, id, refs) == [kind |-> kind, id |-> id, refs |-> refs]

\* A v1.Descriptor; name is the org.opencontainers.image.ref.name annotation,
\* "" when it is absent.
Desc(mt, blob, name) == [MediaType |-> mt, Digest |-> SHA256(blob), name |-> name]

LayerBlob(id) == BlobOf("layer", id, <<>>)
ConfigBlob(id) == BlobOf("config", id, <<>>)
ArtifactBlob(id) == BlobOf("artifact", id, <<>>)

\* The raw manifest of an image: its layers, then its config.
ImageManifest(layerBlobs, configBlob) ==
    BlobOf("manifest", "",
           [k \in DOMAIN layerBlobs |-> Desc(OCILayer, layerBlobs[k], "")]
               \o <<Desc(OCIConfigJSON, configBlob, "")>>)

\* The raw manifest of an index.
IndexManifest(descs) == BlobOf("index", "", descs)

ManifestLayers(m) == SelectSeq(m.refs, LAMBDA d : d.MediaType = OCILayer)
ManifestConfig(m) == SelectSeq(m.refs, LAMBDA d : d.MediaType = OCIConfigJSON)[1]

MediaTypeOf(blob) == IF blob.kind = "index" THEN OCIImageIndex
                     ELSE IF blob.kind = "manifest" THEN OCIManifestSchema1
                     ELSE OtherArtifact

\* slices.Contains
Contains(s, x) == \E k \in DOMAIN s : s[k] = x

\* ---- the container file (sif.FileImage) ----

DataOCIBlob == "OCI.Blob"
DataOCIRootIndex == "OCI.RootIndex"

Object(t, data) == [DataType |-> t, data |-> data]

\* An empty container file.
NoObjects == EmptyMap

Copies(s, o) == IF o \in DOMAIN s THEN s[o] ELSE 0

\* The element of a singleton set: Only({e(x) : x \in {v}}) is e(v), with v
\* evaluated once.
Only(S) == CHOOSE x \in S : TRUE

\* sif.FileImage.AddObject
AddObject(s, o) == Only({(o :> (Copies(f, o) + 1)) @@ f : f \in {s}})

\* Descriptor.OCIBlobDigest: the digest of an OCI.Blob or OCI.RootIndex object.
OCIBlobDigest(o) == SHA256(o.data)

\* The selectors: sif.WithDataType, sif.WithOCIBlobDigest, selectBlobsExcept.
WithDataType(t, o) == o.DataType = t
WithOCIBlobDigest(h, o) == OCIBlobDigest(o) = h
\* A selection that spares the blobs, deleting the root index only.
selectBlobsExcept_rootOnly(keep, o) == o.DataType = DataOCIRootIndex /\ ~Contains(keep, OCIBlobDigest(o))
selectBlobsExcept(keep, o) == ~Contains(keep, OCIBlobDigest(o))

Selected(s, sel(_)) == {o \in DOMAIN s : sel(o)}

\* sif.FileImage.GetDescriptor: exactly one object must be selected.
GetDescriptor(s, sel(_)) ==
    LET found == Selected(s, sel)
    IN  IF found = {}
        THEN [o |-> Object("", BlobOf("", "", <<>>)), err |-> errObjectNotFound]
        ELSE IF Cardinality(found) > 1 \/ \E o \in found : s[o] > 1
             THEN [o |-> Object("", BlobOf("", "", <<>>)), err |-> errMultipleObjectsFound]
             ELSE [o |-> CHOOSE o \in found : TRUE, err |-> errNil]

\* sif.FileImage.DeleteObjects: every selected object is deleted; selecting
\* nothing is an error.
DeleteObjects(s, sel(_)) ==
    LET found == Selected(s, sel)
    IN  IF found = {}
        THEN [sif |-> s, err |-> errObjectNotFound]
        ELSE [sif |-> [o \in (DOMAIN s) \ found |-> s[o]], err |-> errNil]

\* OCIFileImage.Bytes / Blob
Bytes(s, h) ==
    LET d == GetDescriptor(s, LAMBDA o : WithOCIBlobDigest(h, o))
    IN  [data |-> d.o.data, err |-> d.err]

writeBlob(s, data, t) == AddObject(s, Object(t, data))
WriteBlob(s, data) == writeBlob(s, data, DataOCIBlob)
writeRootIndex(s, data) == writeBlob(s, data, DataOCIRootIndex)

\* ---- reading an index ----

\* A v1.ImageIndex as UpdateRootIndex sees it: its raw manifest; whether it
\* is held in memory as a whole (inMem), or is read from the container file
\* except for the children, named by digest in added, that an append holds in
\* memory.
Ix(raw, added, inMem) == [raw |-> raw, added |-> added, inMem |-> inMem]

\* A v1.Image: its raw manifest, and whether its blobs are read from memory
\* or from the container file.
Im(raw, inMem) == [raw |-> raw, inMem |-> inMem]

\* OCIFileImage.RootIndex
RootIndex(s) ==
    LET d == GetDescriptor(s, LAMBDA o : WithDataType(DataOCIRootIndex, o))
    IN  [ix |-> Ix(d.o.data, {}, FALSE), err |-> d.err]

\* ii.ImageIndex(h): a child held in memory, or else read from the file.
ChildIndex(ii, h, s) ==
    IF ii.inMem \/ h \in ii.added
    THEN [ix |-> Ix(h.sha256, {}, TRUE), err |-> errNil]
    ELSE LET b == Bytes(s, h) IN [ix |-> Ix(b.data, {}, FALSE), err |-> b.err]

\* ii.Image(h)
ChildImage(ii, h, s) ==
    IF ii.inMem \/ h \in ii.added
    THEN [im |-> Im(h.sha256, TRUE), err |-> errNil]
    ELSE LET b == Bytes(s, h) IN [im |-> Im(b.data, FALSE), err |-> b.err]

\* l.Compressed() / im.RawConfigFile(): the content of a blob of an image.
ImageBlob(im, h, s) ==
    IF im.inMem THEN [data |-> h.sha256, err |-> errNil] ELSE Bytes(s, h)

\* ---- UpdateRootIndex ----

\* sifBlobs: the digests of the OCI.Blob objects, one per object.
RECURSIVE DigestList(_, _)
DigestList(s, objs) ==
    IF objs = {}
    THEN <<>>
    ELSE LET o == CHOOSE x \in objs : TRUE
         IN  [k \in 1..s[o] |-> OCIBlobDigest(o)] \o DigestList(s, objs \ {o})

sifBlobs(s) == DigestList(s, Selected(s, LAMBDA o : WithDataType(DataOCIBlob, o)))

NoneCached == [cached |-> <<>>, skipped |-> <<>>, err |-> errNil]
CacheFailed(e) == [cached |-> <<>>, skipped |-> <<>>, err |-> e]

\* One blob of the walk: skipped if the file has it, else read and cached.
CacheOne(acc, h, inSkip, read) ==
    IF inSkip
    THEN [acc EXCEPT !.skipped = Append(@, h)]
    ELSE IF read.err # errNil
         THEN CacheFailed(read.err)
         ELSE [acc EXCEPT !.cached = Append(@, h)]

RECURSIVE cacheLayers(_, _, _, _, _)
cacheLayers(im, layers, skip, s, acc) ==
    IF layers = <<>> \/ acc.err # errNil
    THEN acc
    ELSE LET ld == Head(layers).Digest
         IN  cacheLayers(im, Tail(layers), skip, s,
                         CacheOne(acc, ld, Contains(skip, ld), ImageBlob(im, ld, s)))

Read(data) == [data |-> data, err |-> errNil]

cacheImageBlobs(im, skip, s) ==
    LET afterLayers == cacheLayers(im, ManifestLayers(im.raw), skip, s, NoneCached)
        cd == ManifestConfig(im.raw).Digest
        afterConfig == IF afterLayers.err # errNil THEN afterLayers
                       ELSE CacheOne(afterLayers, cd, Contains(skip, cd), ImageBlob(im, cd, s))
        id == SHA256(im.raw)
    IN  IF afterConfig.err # errNil THEN afterConfig
        ELSE CacheOne(afterConfig, id, Contains(skip, id), Read(im.raw))

RECURSIVE cacheIndexBlobs(_, _, _)
RECURSIVE cacheManifests(_, _, _, _, _)
cacheIndexBlobs(ii, skip, s) == cacheManifests(ii, ii.raw.refs, skip, s, NoneCached)

cacheManifests(ii, descs, skip, s, acc) ==
    IF descs = <<>>
    THEN acc
    ELSE LET desc == Head(descs)
         IN  IF IsIndex(desc.MediaType)
             THEN LET child == ChildIndex(ii, desc.Digest, s)
                  IN  IF child.err # errNil
                      THEN CacheFailed(child.err)
                      ELSE LET c == cacheIndexBlobs(child.ix, skip, s)
                           IN  IF c.err # errNil
                               THEN CacheFailed(c.err)
                               ELSE cacheManifests(ii, Tail(descs), skip, s,
                                        CacheOne([acc EXCEPT !.cached = @ \o c.cached,
                                                             !.skipped = @ \o c.skipped],
                                                 desc.Digest, Contains(skip, desc.Digest),
                                                 Read(child.ix.raw)))
             ELSE IF IsImage(desc.MediaType)
                  THEN LET child == ChildImage(ii, desc.Digest, s)
                       IN  IF child.err # errNil
                           THEN CacheFailed(child.err)
                           ELSE LET c == cacheImageBlobs(child.im, skip, s)
                                IN  IF c.err # errNil
                                    THEN CacheFailed(c.err)
                                    ELSE cacheManifests(ii, Tail(descs), skip, s,
                                             [acc EXCEPT !.cached = @ \o c.cached,
                                                         !.skipped = @ \o c.skipped])
                  ELSE CacheFailed(errUnexpectedMediaType)

\* An UpdateRootIndex that writes none of the cached blobs.
writeCached_none(s, cached) == s

\* The loop of UpdateRootIndex that writes the cached blobs into the file.
RECURSIVE writeCached(_, _)
writeCached(s, cached) ==
    IF cached = <<>> THEN s ELSE writeCached(WriteBlob(s, Head(cached).sha256), Tail(cached))

\* A result of an operation on the file: the file after it, its error, and
\* whether UpdateRootIndex returned at once because the root digests matched.
Result(s, e, same) == [sif |-> s, err |-> e, same |-> same]

\* The part of UpdateRootIndex after the cache walk: delete, write, new root.
reconcile(s, ii, cached, keepBlobs) ==
    LET d == DeleteObjects(s, LAMBDA o : selectBlobsExcept(keepBlobs, o))
    IN  IF d.err # errNil
        THEN Result(s, d.err, FALSE)
        ELSE Result(writeRootIndex(writeCached(d.sif, cached), ii.raw), errNil, FALSE)

UpdateRootIndex(s, ii) ==
    LET sifRootIndex == RootIndex(s)
    IN  IF sifRootIndex.err # errNil
        THEN Result(s, sifRootIndex.err, FALSE)
        ELSE IF SHA256(sifRootIndex.ix.raw) = SHA256(ii.raw)
             THEN Result(s, errNil, TRUE)
             ELSE Only({IF c.err # errNil
                        THEN Result(s, c.err, FALSE)
                        ELSE reconcile(s, ii, c.cached, c.skipped) :
                            c \in {cacheIndexBlobs(ii, blobs, s) : blobs \in {sifBlobs(s)}}})

\* ---- append, replace, remove ----

\* match.Name and match.Digests
MatchName(n) == [by |-> "name", name |-> n, digest |-> SHA256(BlobOf("", "", <<>>))]
MatchDigest(h) == [by |-> "digest", name |-> "", digest |-> h]
\* A nil match.Matcher, and matchAll of pkg/sif.
NilMatcher == [by |-> "nil", name |-> "", digest |-> SHA256(BlobOf("", "", <<>>))]
matchAll == [by |-> "all", name |-> "", digest |-> SHA256(BlobOf("", "", <<>>))]
Matches(m, desc) ==
    IF m.by = "all" THEN TRUE
    ELSE IF m.by = "name" THEN desc.name = m.name ELSE desc.Digest = m.digest

\* matchAllIfNil: m if not nil, or a matcher that matches all descriptors.
matchAllIfNil(m) == IF m # NilMatcher THEN m ELSE matchAll

\* Calling a nil match.Matcher panics in the Go runtime.
panicNilDereference == "panic: runtime error: invalid memory address or nil pointer dereference"

\* A mutate.RemoveManifests that removes every descriptor.
RemoveFromIndex_all(ii, m) == [ii EXCEPT !.raw = IndexManifest(<<>>)]

\* mutate.RemoveManifests: the index without the descriptors the matcher selects.
RemoveFromIndex(ii, m) ==
    [ii EXCEPT !.raw = IndexManifest(SelectSeq(ii.raw.refs, LAMBDA d : ~Matches(m, d)))]

\* A removeRefAnnotation that leaves the annotations as they are.
removeRefAnnotation_kept(ii, ref) == ii

\* A removeRefAnnotation that removes the descriptors that carry the name.
removeRefAnnotation_removed(ii, ref) == RemoveFromIndex(ii, MatchName(ref))

\* editManifestDescriptors with the edit of removeRefAnnotation.
removeRefAnnotation(ii, ref) ==
    [ii EXCEPT !.raw = IndexManifest([k \in DOMAIN ii.raw.refs |->
                            IF Matches(MatchName(ref), ii.raw.refs[k])
                            THEN [ii.raw.refs[k] EXCEPT !.name = ""]
                            ELSE ii.raw.refs[k]])]

\* mutate.AppendManifests: the index with one more descriptor, whose content
\* is held in memory.
AppendManifests(ii, desc) ==
    [ii EXCEPT !.raw = IndexManifest(Append(ii.raw.refs, desc)),
               !.added = @ \cup {desc.Digest}]

\* ref = "" stands for no OptAppendReference.
appendToIndex(ii, add, ref) ==
    IF ref # ""
    THEN AppendManifests(removeRefAnnotation(ii, ref), Desc(MediaTypeOf(add), add, ref))
    ELSE AppendManifests(ii, Desc(MediaTypeOf(add), add, ""))

append(s, add, ref) ==
    LET ri == RootIndex(s)
    IN  IF ri.err # errNil
        THEN Result(s, ri.err, FALSE)
        ELSE UpdateRootIndex(s, appendToIndex(ri.ix, add, ref))

replace(s, add, m, ref) ==
    LET ri == RootIndex(s)
    IN  IF ri.err # errNil
        THEN Result(s, ri.err, FALSE)
        ELSE UpdateRootIndex(s, appendToIndex(RemoveFromIndex(ri.ix, m), add, ref))

RemoveManifests(s, m) ==
    LET ri == RootIndex(s)
    IN  IF ri.err # errNil
        THEN Result(s, ri.err, FALSE)
        ELSE UpdateRootIndex(s, RemoveFromIndex(ri.ix, m))

RemoveBlob(s, h) ==
    LET d == DeleteObjects(s, LAMBDA o : WithOCIBlobDigest(h, o))
    IN  Result(d.sif, d.err, FALSE)

\* ---- Write ----

RECURSIVE writeLayers(_, _)
writeLayers(s, layers) ==
    IF layers = <<>> THEN s ELSE writeLayers(WriteBlob(s, Head(layers).Digest.sha256), Tail(layers))

writeImage(s, raw) ==
    WriteBlob(WriteBlob(writeLayers(s, ManifestLayers(raw)),
                        ManifestConfig(raw).Digest.sha256),
              raw)

RECURSIVE writeIndex(_, _, _)
RECURSIVE writeManifests(_, _)
writeIndex(s, raw, rootIndex) ==
    LET s1 == writeManifests(s, raw.refs)
    IN  IF rootIndex THEN writeRootIndex(s1, raw) ELSE WriteBlob(s1, raw)

writeManifests(s, descs) ==
    IF descs = <<>>
    THEN s
    ELSE LET desc == Head(descs)
             s1 == IF IsIndex(desc.MediaType) THEN writeIndex(s, desc.Digest.sha256, FALSE)
                   ELSE IF IsImage(desc.MediaType) THEN writeImage(s, desc.Digest.sha256)
                   ELSE WriteBlob(s, desc.Digest.sha256)
         IN  writeManifests(s1, Tail(descs))

\* Write(path, ii): a new container file holding ii as its root index.
Write(raw) == writeIndex(NoObjects, raw, TRUE)

\* ---- Index and Image by matcher ----

\* What a read returns: the raw manifest of the index or image, and the error.
Found(raw, e) == [raw |-> raw, err |-> e]
NotFound(e) == Found(BlobOf("", "", <<>>), e)

\* imageIndex.findDescriptor: the first descriptor of the index with digest h.
findDescriptor(refs, h) ==
    LET at == {k \in DOMAIN refs : refs[k].Digest = h}
    IN  IF at = {}
        THEN [desc |-> Desc("", BlobOf("", "", <<>>), ""), err |-> errDescriptorNotFoundInIndex]
        ELSE [desc |-> refs[CHOOSE k \in at : \A j \in at : k <= j], err |-> errNil]

\* imageIndex.ImageIndex(h) and imageIndex.Image(h): the child of media type
\* isType with digest h, its manifest read from the file.
childByDigest(refs, h, s, isType(_)) ==
    LET d == findDescriptor(refs, h)
    IN  IF d.err # errNil THEN NotFound(d.err)
        ELSE IF ~isType(d.desc.MediaType) THEN NotFound(errUnexpectedMediaType)
        ELSE LET b == Bytes(s, h)
             IN  IF b.err # errNil THEN NotFound(b.err) ELSE Found(b.data, errNil)

\* partial.FindIndexes / partial.FindImages: the children of the type among
\* the descriptors the matcher selects, each read; the first read error ends it.
RECURSIVE findChildren(_, _, _, _, _)
findChildren(refs, descs, s, isType(_), acc) ==
    IF descs = <<>>
    THEN [matches |-> acc, err |-> errNil]
    ELSE IF ~isType(Head(descs).MediaType)
         THEN findChildren(refs, Tail(descs), s, isType, acc)
         ELSE LET c == childByDigest(refs, Head(descs).Digest, s, isType)
              IN  IF c.err # errNil
                  THEN [matches |-> <<>>, err |-> c.err]
                  ELSE findChildren(refs, Tail(descs), s, isType, Append(acc, c.raw))

\* A body that returns the first match when there are several.
single_first(s, m, isType(_)) ==
    LET ri == RootIndex(s)
    IN  IF ri.err # errNil THEN NotFound(ri.err)
        ELSE LET f == findChildren(ri.ix.raw.refs,
                                   SelectSeq(ri.ix.raw.refs, LAMBDA d : Matches(m, d)),
                                   s, isType, <<>>)
             IN  IF f.err # errNil THEN NotFound(f.err)
                 ELSE IF Len(f.matches) = 0 THEN NotFound(ErrNoMatch)
                 ELSE childByDigest(ri.ix.raw.refs, SHA256(f.matches[1]), s, isType)

\* The body shared by OCIFileImage.Index and OCIFileImage.Image: exactly one
\* child of the type among those the matcher selects.
single(s, m, isType(_)) ==
    LET ri == RootIndex(s)
    IN  IF ri.err # errNil THEN NotFound(ri.err)
        ELSE IF m = NilMatcher /\ ri.ix.raw.refs # <<>> THEN NotFound(panicNilDereference)
        ELSE LET f == findChildren(ri.ix.raw.refs,
                                   SelectSeq(ri.ix.raw.refs, LAMBDA d : Matches(m, d)),
                                   s, isType, <<>>)
             IN  IF f.err # errNil THEN NotFound(f.err)
                 ELSE IF Len(f.matches) > 1 THEN NotFound(ErrMultipleMatches)
                 ELSE IF Len(f.matches) = 0 THEN NotFound(ErrNoMatch)
                 ELSE childByDigest(ri.ix.raw.refs, SHA256(f.matches[1]), s, isType)

\* OCIFileImage.FindManifests: the root-index entries the matcher selects, in
\* order; every entry for a nil matcher.
FindManifests(s, m) ==
    LET ri == RootIndex(s)
    IN  IF ri.err # errNil THEN [descs |-> <<>>, err |-> ri.err]
        ELSE [descs |-> SelectSeq(ri.ix.raw.refs, LAMBDA d : Matches(matchAllIfNil(m), d)),
              err |-> errNil]

Index_first(s, m) == single_first(s, m, IsIndex)
Index(s, m) == single(s, m, IsIndex)
Image(s, m) == single(s, m, IsImage)

\* ---- the layers of a stored image ----

\* What LayerByDigest returns: the descriptor the layer wraps, and the error.
LayerOf(desc, e) == [desc |-> desc, err |-> e]
NoLayerOf(e) == LayerOf(Desc("", BlobOf("", "", <<>>), ""), e)

\* The loop of image.LayerByDigest over manifest.Layers.
layerInManifest(raw, h) ==
    LET at == {k \in DOMAIN ManifestLayers(raw) : ManifestLayers(raw)[k].Digest = h}
    IN  IF at = {}
        THEN NoLayerOf(errLayerNotFoundInImage)
        ELSE LayerOf(ManifestLayers(raw)[CHOOSE k \in at : \A j \in at : k <= j], errNil)

\* image.LayerByDigest of pkg/sif/image.go (a partial.CompressedImageCore): the
\* config is looked up first and returned as a layer.
coreLayerByDigest(raw, h) ==
    IF h = ManifestConfig(raw).Digest
    THEN LayerOf(ManifestConfig(raw), errNil)
    ELSE layerInManifest(raw, h)

\* image.LayerByDigest of the v1.Image implementation.
imageLayerByDigest(raw, h) == layerInManifest(raw, h)

\* ---- inputs ----

MaxOps == 3

blobL1 == LayerBlob("l1")
blobL2 == LayerBlob("l2")
blobC1 == ConfigBlob("c1")
blobC2 == ConfigBlob("c2")
\* A blob that no image or index refers to.
blobJunk == LayerBlob("l9")
blobArt == ArtifactBlob("a1")

\* Two images that share the layer l1.
image1 == ImageManifest(<<blobL1>>, blobC1)
image2 == ImageManifest(<<blobL1, blobL2>>, blobC2)

\* An index of image1.
index1 == IndexManifest(<<Desc(OCIManifestSchema1, image1, "")>>)

Refs == {"", "r1"}

Images == {image1, image2}
ChildIndexes == {index1}

\* The indexes handed to Write and to UpdateRootIndex.
RootIndexes ==
    {IndexManifest(<<>>),
     index1,
     IndexManifest(<<Desc(OCIManifestSchema1, image2, "")>>),
     IndexManifest(<<Desc(OCIManifestSchema1, image1, "r1"), Desc(OCIManifestSchema1, image2, "")>>),
     IndexManifest(<<Desc(OCIManifestSchema1, image1, "r1"), Desc(OCIManifestSchema1, image2, "r1")>>),
     IndexManifest(<<Desc(OCIImageIndex, index1, "")>>),
     IndexManifest(<<Desc(OCIManifestSchema1, image1, ""), Desc(OtherArtifact, blobArt, "")>>)}

Matchers == {MatchName("r1"), MatchDigest(SHA256(image1))}

\* The match.Matcher functions handed to Index and Image.
ReadMatchers == Matchers \cup {MatchDigest(SHA256(index1))}

\* A caller may also hand a nil matcher.
QueryMatchers == ReadMatchers \cup {NilMatcher}

StoredDigests(s) == {OCIBlobDigest(o) : o \in DOMAIN s}

\* ---- the artifact store as a state machine ----

NoIndex == BlobOf("", "", <<>>)

\* The last call: its name, its error, whether UpdateRootIndex found the root
\* digests equal, and the index that was handed to UpdateRootIndex (or Write).
Called(name, e, same, raw) == [call |-> name, err |-> e, same |-> same, index |-> raw]

StoreInit ==
    /\ \E raw \in RootIndexes :
        /\ sifFile = Write(raw)
        /\ last = Called("Write", errNil, FALSE, raw)
    /\ nops = 0
    /\ removed = FALSE

StoreIdle ==
    /\ sifFile = NoObjects
    /\ last = Called("none", errNil, FALSE, NoIndex)
    /\ nops = 0
    /\ removed = FALSE

Returns(name, r, raw) ==
    /\ \E res \in {r} :
        /\ sifFile' = res.sif
        /\ last' = Called(name, res.err, res.same, raw)
    /\ nops' = nops + 1
    /\ UNCHANGED notStoreVars

\* The index that an operation built on the root index hands to UpdateRootIndex.
Handed(ri, ii) == IF ri.err = errNil THEN ii.raw ELSE NoIndex

UpdateRootIndexCall ==
    /\ nops < MaxOps
    /\ \E raw \in RootIndexes : Returns("UpdateRootIndex", UpdateRootIndex(sifFile, Ix(raw, {}, TRUE)), raw)
    /\ UNCHANGED removed

AppendImageCall ==
    /\ nops < MaxOps
    /\ \E add \in Images, ref \in Refs :
        LET ri == RootIndex(sifFile)
        IN  Returns("AppendImage", append(sifFile, add, ref), Handed(ri, appendToIndex(ri.ix, add, ref)))
    /\ UNCHANGED removed

AppendIndexCall ==
    /\ nops < MaxOps
    /\ \E add \in ChildIndexes, ref \in Refs :
        LET ri == RootIndex(sifFile)
        IN  Returns("AppendIndex", append(sifFile, add, ref), Handed(ri, appendToIndex(ri.ix, add, ref)))
    /\ UNCHANGED removed

ReplaceImageCall ==
    /\ nops < MaxOps
    /\ \E add \in Images, m \in Matchers, ref \in Refs :
        LET ri == RootIndex(sifFile)
        IN  Returns("ReplaceImage", replace(sifFile, add, m, ref),
                    Handed(ri, appendToIndex(RemoveFromIndex(ri.ix, m), add, ref)))
    /\ UNCHANGED removed

ReplaceIndexCall ==
    /\ nops < MaxOps
    /\ \E add \in ChildIndexes, m \in Matchers, ref \in Refs :
        LET ri == RootIndex(sifFile)
        IN  Returns("ReplaceIndex", replace(sifFile, add, m, ref),
                    Handed(ri, appendToIndex(RemoveFromIndex(ri.ix, m), add, ref)))
    /\ UNCHANGED removed

RemoveManifestsCall ==
    /\ nops < MaxOps
    /\ \E m \in Matchers :
        LET ri == RootIndex(sifFile)
        IN  Returns("RemoveManifests", RemoveManifests(sifFile, m), Handed(ri, RemoveFromIndex(ri.ix, m)))
    /\ UNCHANGED removed

\* RemoveBlob of a digest found in the file, or of one that is not.
RemoveBlobCall ==
    /\ nops < MaxOps
    /\ \E h \in StoredDigests(sifFile) \cup {SHA256(blobJunk)} :
        LET r == RemoveBlob(sifFile, h)
        IN  /\ Returns("RemoveBlob", r, NoIndex)
            /\ removed' = (removed \/ r.err = errNil)

\* WriteBlob of a blob nothing refers to, of a layer, or of the bytes of the
\* root index.
WriteBlobCall ==
    /\ nops < MaxOps
    /\ \E data \in {blobJunk, blobL1}
                   \cup {o.data : o \in Selected(sifFile, LAMBDA x : WithDataType(DataOCIRootIndex, x))} :
        Returns("WriteBlob", Result(WriteBlob(sifFile, data), errNil, FALSE), NoIndex)
    /\ UNCHANGED removed

\* Index(matcher) and Image(matcher): the file is read, not written.
IndexCall ==
    /\ nops < MaxOps
    /\ \E m \in QueryMatchers : \E r \in {Index(sifFile, m)} :
          Returns("Index", Result(sifFile, r.err, FALSE), r.raw)
    /\ UNCHANGED removed

ImageCall ==
    /\ nops < MaxOps
    /\ \E m \in QueryMatchers : \E r \in {Image(sifFile, m)} :
          Returns("Image", Result(sifFile, r.err, FALSE), r.raw)
    /\ UNCHANGED removed

StoreNext ==
    \/ UpdateRootIndexCall
    \/ AppendImageCall
    \/ AppendIndexCall
    \/ ReplaceImageCall
    \/ ReplaceIndexCall
    \/ RemoveManifestsCall
    \/ RemoveBlobCall
    \/ WriteBlobCall
    \/ IndexCall
    \/ ImageCall

-----------------------------------------------------------------------------
(* Two calls on the same OCIFileImage at once.  An OCIFileImage holds the   *)
(* sif.FileImage and nothing else, and no call takes a lock: the calls of   *)
(* two goroutines interleave between their accesses to the container file.  *)
(* A step below is one access to the file by one call, with the             *)
(* computation that follows it up to the next access.                       *)

Threads == {1, 2}

NoHash == SHA256(NoIndex)

\* A call on the store and its arguments.
StoreOp(name, add, m, ref, raw, h) ==
    [name |-> name, add |-> add, m |-> m, ref |-> ref, raw |-> raw, h |-> h]

NoStoreOp == StoreOp("none", NoIndex, MatchName(""), "", NoIndex, NoHash)

UpdateOps ==
    {StoreOp("UpdateRootIndex", NoIndex, MatchName(""), "", raw, NoHash) :
        raw \in {IndexManifest(<<>>), index1}}
    \cup {StoreOp("AppendImage", add, MatchName(""), "", NoIndex, NoHash) : add \in Images}
    \cup {StoreOp("AppendIndex", add, MatchName(""), "", NoIndex, NoHash) : add \in ChildIndexes}
    \cup {StoreOp("ReplaceImage", image2, MatchDigest(SHA256(image1)), "r1", NoIndex, NoHash)}
    \cup {StoreOp("ReplaceIndex", add, MatchName("r1"), "", NoIndex, NoHash) : add \in ChildIndexes}
    \cup {StoreOp("RemoveManifests", NoIndex, m, "", NoIndex, NoHash) : m \in Matchers}

RemoveOps ==
    {StoreOp("RemoveBlob", NoIndex, MatchName(""), "", NoIndex, SHA256(b)) : b \in {blobL1, blobJunk}}

\* A call in flight: where it is, and the locals of UpdateRootIndex.
InFlight(o, pc, ii, cached, keepBlobs, e) ==
    [op |-> o, pc |-> pc, ii |-> ii, cached |-> cached, keepBlobs |-> keepBlobs, err |-> e]

NotCalled == InFlight(NoStoreOp, "idle", Ix(NoIndex, {}, FALSE), <<>>, <<>>, errNil)

Finished(c, e) == [c EXCEPT !.pc = "done", !.err = e]

\* The index that the call hands to UpdateRootIndex: the one it was given, or
\* the one that append, replace or RemoveManifests builds on the root index ri.
HandedIndex(o, ri) ==
    IF o.name \in {"AppendImage", "AppendIndex"}
    THEN appendToIndex(ri, o.add, o.ref)
    ELSE IF o.name \in {"ReplaceImage", "ReplaceIndex"}
         THEN appendToIndex(RemoveFromIndex(ri, o.m), o.add, o.ref)
         ELSE IF o.name = "RemoveManifests"
              THEN RemoveFromIndex(ri, o.m)
              ELSE Ix(o.raw, {}, TRUE)

ConcInit ==
    /\ \E raw \in RootIndexes :
        /\ sifFile = Write(raw)
        /\ sif0 = sifFile
        /\ last = Called("Write", errNil, FALSE, raw)
    /\ nops = 0
    /\ removed = FALSE
    /\ calls = [t \in Threads |-> NotCalled]

ConcIdle ==
    /\ sif0 = NoObjects
    /\ calls = [t \in Threads |-> NotCalled]

\* UpdateRootIndex is called with an index held in memory.
BeginUpdate ==
    /\ \E t \in Threads, o \in UpdateOps :
        /\ calls[t].pc = "idle"
        /\ o.name = "UpdateRootIndex"
        /\ calls' = [calls EXCEPT ![t] = [@ EXCEPT !.op = o, !.pc = "compare",
                                                   !.ii = HandedIndex(o, Ix(NoIndex, {}, FALSE))]]
    /\ UNCHANGED <<sifFile, sif0, notConcVars>>

\* append, replace, RemoveManifests: f.RootIndex(), and the index built on it.
BeginOnRoot ==
    /\ \E t \in Threads, o \in UpdateOps :
        /\ calls[t].pc = "idle"
        /\ o.name # "UpdateRootIndex"
        /\ \E ri \in {RootIndex(sifFile)} :
            calls' = [calls EXCEPT ![t] =
                         IF ri.err # errNil
                         THEN Finished([@ EXCEPT !.op = o], ri.err)
                         ELSE [@ EXCEPT !.op = o, !.pc = "compare", !.ii = HandedIndex(o, ri.ix)]]
    /\ UNCHANGED <<sifFile, sif0, notConcVars>>

\* UpdateRootIndex: f.RootIndex() and the comparison of the root digests.
CompareRoot ==
    /\ \E t \in Threads :
        /\ calls[t].pc = "compare"
        /\ \E sifRootIndex \in {RootIndex(sifFile)} :
            calls' = [calls EXCEPT ![t] =
                         IF sifRootIndex.err # errNil
                         THEN Finished(@, sifRootIndex.err)
                         ELSE IF SHA256(sifRootIndex.ix.raw) = SHA256(@.ii.raw)
                              THEN Finished(@, errNil)
                              ELSE [@ EXCEPT !.pc = "cache"]]
    /\ UNCHANGED <<sifFile, sif0, notConcVars>>

\* UpdateRootIndex: sifBlobs and the cache walk, which reads from the file the
\* blobs that the index does not hold in memory.
CacheBlobs ==
    /\ \E t \in Threads :
        /\ calls[t].pc = "cache"
        /\ \E c \in {cacheIndexBlobs(calls[t].ii, blobs, sifFile) : blobs \in {sifBlobs(sifFile)}} :
            calls' = [calls EXCEPT ![t] =
                         IF c.err # errNil
                         THEN Finished(@, c.err)
                         ELSE [@ EXCEPT !.pc = "delete", !.cached = c.cached,
                                        !.keepBlobs = c.skipped]]
    /\ UNCHANGED <<sifFile, sif0, notConcVars>>

\* UpdateRootIndex: f.sif.DeleteObjects(selectBlobsExcept(keepBlobs)).
DeleteBlobs ==
    /\ \E t \in Threads :
        /\ calls[t].pc = "delete"
        /\ \E d \in {DeleteObjects(sifFile, LAMBDA o : selectBlobsExcept(calls[t].keepBlobs, o))} :
            /\ sifFile' = d.sif
            /\ calls' = [calls EXCEPT ![t] =
                            IF d.err # errNil THEN Finished(@, d.err) ELSE [@ EXCEPT !.pc = "write"]]
    /\ UNCHANGED <<sif0, notConcVars>>

\* UpdateRootIndex: the cached blobs are written into the file.
WriteCachedBlobs ==
    /\ \E t \in Threads :
        /\ calls[t].pc = "write"
        /\ sifFile' = writeCached(sifFile, calls[t].cached)
        /\ calls' = [calls EXCEPT ![t] = [@ EXCEPT !.pc = "root"]]
    /\ UNCHANGED <<sif0, notConcVars>>

\* UpdateRootIndex: f.writeRootIndex.
WriteRoot ==
    /\ \E t \in Threads :
        /\ calls[t].pc = "root"
        /\ sifFile' = writeRootIndex(sifFile, calls[t].ii.raw)
        /\ calls' = [calls EXCEPT ![t] = Finished(@, errNil)]
    /\ UNCHANGED <<sif0, notConcVars>>

\* RemoveBlob: one DeleteObjects.
RemoveBlobStep ==
    /\ \E t \in Threads, o \in RemoveOps :
        /\ calls[t].pc = "idle"
        /\ \E r \in {RemoveBlob(sifFile, o.h)} :
            /\ sifFile' = r.sif
            /\ calls' = [calls EXCEPT ![t] = Finished([@ EXCEPT !.op = o], r.err)]
    /\ UNCHANGED <<sif0, notConcVars>>

ConcNext ==
    \/ BeginUpdate
    \/ BeginOnRoot
    \/ CompareRoot
    \/ CacheBlobs
    \/ DeleteBlobs
    \/ WriteCachedBlobs
    \/ WriteRoot
    \/ RemoveBlobStep

\* The call o made alone on the file s.
RunAlone(o, s) ==
    IF o.name = "RemoveBlob"
    THEN RemoveBlob(s, o.h)
    ELSE IF o.name = "UpdateRootIndex"
         THEN UpdateRootIndex(s, Ix(o.raw, {}, TRUE))
         ELSE IF o.name \in {"AppendImage", "AppendIndex"}
              THEN append(s, o.add, o.ref)
              ELSE IF o.name \in {"ReplaceImage", "ReplaceIndex"}
                   THEN replace(s, o.add, o.m, o.ref)
                   ELSE RemoveManifests(s, o.m)

-----------------------------------------------------------------------------
(* Several goroutines observe the same mutated image, or the same           *)
(* squashfsLayer, for the first time: populate() under the value's          *)
(* sync.Mutex and its computed flag.                                        *)

MaxReaders == 2

Readers == 1..MaxReaders

errConverter == "mksquashfs error"

\* A squashfsLayer on the layer base, before its first observation.
SquashfsLayer(base) ==
    [base |-> base, computed |-> FALSE, path |-> <<>>, hash |-> NoHash, size |-> 0]

\* squashfsLayer.populate after the computed check: the conversion, which
\* fails when the converter does (ok = FALSE), then the fields.
convert(l, ok) ==
    IF ~ok
    THEN [v |-> l, err |-> errConverter]
    ELSE [v |-> [l EXCEPT !.computed = TRUE,
                          !.path = <<"layer.sqfs">> \o l.base.diffID,
                          !.hash = SHA256(<<"sqfs">> \o l.base.diffID),
                          !.size = Len(l.base.diffID)],
          err |-> errNil]

\* The value that is observed: a struct image or a squashfsLayer.
SharedValue(kind, v) == [kind |-> kind, v |-> v]

NoValue == SharedValue("none", NoImage)

\* The images built by Apply with one mutation, and the layers of a converter.
SharedValues ==
    {SharedValue("image", r.img) :
        r \in {a \in {Apply(b, <<m>>) : b \in BaseImages, m \in Mutations} : a.err = errNil}}
    \cup {SharedValue("squashfsLayer", SquashfsLayer(l)) : l \in {lA, lB}}

\* What the environment decides in a computation: whether the converter
\* succeeds.  The computation of a mutated image is decided by the image.
Outcomes(s) == IF s.kind = "squashfsLayer" THEN {TRUE, FALSE} ELSE {TRUE}

\* The body of populate after the computed check.
Computation(s, ok) ==
    IF s.kind = "squashfsLayer"
    THEN LET r == convert(s.v, ok) IN [v |-> SharedValue(s.kind, r.v), err |-> r.err]
    ELSE LET r == compute(s.v) IN [v |-> SharedValue(s.kind, r.img), err |-> r.err]

\* sync.Mutex: 0 when unlocked, else the reader that holds it.
Unlocked == 0
MutexLock_none(m, t) == m
MutexLock(m, t) == t
MutexUnlock(m, t) == IF m = t THEN Unlocked ELSE m

Reader(pc, e, seen) == [pc |-> pc, err |-> e, seen |-> seen]

ReadInit ==
    /\ shared \in SharedValues
    /\ mutex = Unlocked
    /\ readers = [t \in Readers |-> Reader("idle", errNil, NoValue)]
    /\ ran = <<>>

ReadIdle ==
    /\ shared = NoValue
    /\ mutex = Unlocked
    /\ readers = <<>>
    /\ ran = <<>>

\* img.Lock(): the reader waits until the mutex is unlocked.
ReaderLock ==
    /\ \E t \in Readers :
        /\ readers[t].pc = "idle"
        /\ mutex = Unlocked
        /\ mutex' = MutexLock(mutex, t)
        /\ readers' = [readers EXCEPT ![t].pc = "locked"]
    /\ UNCHANGED <<shared, ran, notReadVars>>

\* if img.computed { return nil }
ReaderCheck ==
    /\ \E t \in Readers :
        /\ readers[t].pc = "locked"
        /\ readers' = [readers EXCEPT ![t].pc = IF shared.v.computed THEN "unlock" ELSE "computing"]
    /\ UNCHANGED <<shared, mutex, ran, notReadVars>>

\* The computation and, if it succeeds, the assignment of the fields.
ReaderCompute ==
    /\ \E t \in Readers, ok \in Outcomes(shared) :
        /\ readers[t].pc = "computing"
        /\ \E r \in {Computation(shared, ok)} :
            /\ shared' = r.v
            /\ ran' = Append(ran, [by |-> t, err |-> r.err])
            /\ readers' = [readers EXCEPT ![t].pc = "unlock", ![t].err = r.err]
    /\ UNCHANGED <<mutex, notReadVars>>

\* defer img.Unlock(), and the accessor reads the fields if populate returned nil.
ReaderUnlock ==
    /\ \E t \in Readers :
        /\ readers[t].pc = "unlock"
        /\ mutex' = MutexUnlock(mutex, t)
        /\ readers' = [readers EXCEPT ![t].pc = "done",
                                      ![t].seen = IF readers[t].err = errNil THEN shared ELSE NoValue]
    /\ UNCHANGED <<shared, ran, notReadVars>>

ReadNext ==
    \/ ReaderLock
    \/ ReaderCheck
    \/ ReaderCompute
    \/ ReaderUnlock

-----------------------------------------------------------------------------
(* Streaming readers: the reader squashSelected hands to                    *)
(* tarball.LayerFromOpener, the reader of squashfsConverter.Uncompressed    *)
(* and the reader of tarConverter.opener.  Each is the read end of an       *)
(* io.Pipe fed by a goroutine.  An io.Pipe holds no data: a Write is a      *)
(* rendezvous with a Read, and fails once the read end is closed.           *)
(*                                                                          *)
(* The converter worker (makeTAR's goroutine around cmd.Run) feeds its pipe *)
(* from the external converter; the filter worker (squash,                  *)
(* whiteoutsToOverlayFS, whiteoutsToAUFS) reads a tar stream entry by entry *)
(* and writes a tar stream with a tar.Writer.  A tar stream is a sequence   *)
(* of entries closed by a trailer.                                          *)

MaxEntries == 2

errClosedPipe == "io: read/write on closed pipe"
errUpstream == "layer read error"
errCopy == "copy to temporary file failed"
errRun == "converter error"

Entry == "entry"
Trailer == "trailer"

\* The tar stream of n entries.
TarStream(n) == [k \in 1..n |-> Entry] \o <<Trailer>>

\* Which reader is opened, and how.
ReaderConf(reader, convertWhiteout, whiteouts) ==
    [reader |-> reader, convertWhiteout |-> convertWhiteout, whiteouts |-> whiteouts]

ReaderConfs ==
    {ReaderConf("squashSelected", FALSE, FALSE)}
    \cup {ReaderConf("squashfsConverter", cw, wh) : cw \in BOOLEAN, wh \in BOOLEAN}
    \cup {ReaderConf("tarConverter", cw, FALSE) : cw \in BOOLEAN}

\* An io.Pipe: whether its read end is closed and how its write end was
\* closed ("open", "EOF" for CloseWithError(nil), or the error).
Pipe(rclosed, werr) == [rclosed |-> rclosed, werr |-> werr]
NoPipe == Pipe(FALSE, "open")

\* pw.CloseWithError(e)
CloseWithError(p, e) == [p EXCEPT !.werr = IF e = errNil THEN "EOF" ELSE e]

\* A worker: where it is, the stream it has yet to produce or read, its
\* source ("layer": an upstream layer reader; "pipe": the converter's pipe),
\* and the error it returns.
Worker(pc, left, source, e) == [pc |-> pc, left |-> left, source |-> source, err |-> e]
NoWorker == Worker("none", <<>>, "none", errNil)

\* The resources: the temporary SquashFS file of makeTAR and the upstream
\* layer reader rc.
Resources(sqfsFile, rc) == [sqfsFile |-> sqfsFile, rc |-> rc]

\* The consumer: where it is, what its last Read returned, and whether it
\* closed the reader before a Read returned EOF or an error.
Consumer(pc, saw, early) == [pc |-> pc, saw |-> saw, early |-> early]

PipeInit ==
    /\ conf \in ReaderConfs
    /\ rd = "unopened"
    /\ conv = NoWorker
    /\ filt = NoWorker
    /\ convPipe = NoPipe
    /\ filtPipe = NoPipe
    /\ held = Resources("none", "none")
    /\ cons = Consumer("none", "nothing", FALSE)

PipeIdle ==
    /\ conf = ReaderConf("none", FALSE, FALSE)
    /\ rd = "unopened"
    /\ conv = NoWorker
    /\ filt = NoWorker
    /\ convPipe = NoPipe
    /\ filtPipe = NoPipe
    /\ held = Resources("none", "none")
    /\ cons = Consumer("none", "nothing", FALSE)

\* The opener returned an error: no reader, no worker.
OpenFailed(e, r) ==
    /\ rd' = "none"
    /\ cons' = Consumer("failed", e, FALSE)
    /\ held' = r
    /\ UNCHANGED <<conv, filt>>

\* The opener returned the reader r.
Opened(r, v, w, rs) ==
    /\ rd' = r
    /\ cons' = Consumer("reading", "nothing", FALSE)
    /\ conv' = v
    /\ filt' = w
    /\ held' = rs

\* squashSelected's opener: the pipe and the goroutine that runs squash.
\* layersSelected, the first thing squash does, may fail before any tar.Writer
\* exists.
OpenSquashed ==
    /\ rd = "unopened"
    /\ conf.reader = "squashSelected"
    /\ \E n \in 0..MaxEntries, selected \in BOOLEAN :
        Opened("filtPipe", NoWorker,
               IF selected THEN Worker("next", TarStream(n), "layer", errNil)
                           ELSE Worker("finish", <<>>, "layer", errLayerIndexOutOfRange),
               Resources("none", IF selected THEN "open" ELSE "none"))
    /\ UNCHANGED <<conf, convPipe, filtPipe, notPipeVars>>

\* squashfsConverter.Uncompressed: the layer reader itself, or, after the
\* scan for whiteouts, the pipe and the goroutine of whiteoutsToOverlayFS.
OpenSquashfsSource ==
    /\ rd = "unopened"
    /\ conf.reader = "squashfsConverter"
    /\ \E n \in 0..MaxEntries, outcome \in {"no reader", "scan failed", "no second reader", "ok"} :
        IF outcome = "no reader" \/ (outcome = "no second reader" /\ conf.convertWhiteout)
        THEN OpenFailed(errUpstream, Resources("none", "closed"))
        ELSE IF outcome = "scan failed" /\ conf.convertWhiteout
             THEN OpenFailed(errUpstream, Resources("none", "open"))
             ELSE IF conf.convertWhiteout /\ conf.whiteouts
                  THEN Opened("filtPipe", NoWorker, Worker("next", TarStream(n), "layer", errNil),
                              Resources("none", "open"))
                  ELSE Opened("rc", NoWorker, Worker("none", TarStream(n), "layer", errNil),
                              Resources("none", "open"))
    /\ UNCHANGED <<conf, convPipe, filtPipe, notPipeVars>>

\* tarConverter.opener: makeTAR copies the layer into a temporary file and
\* starts the converter with its goroutine; with convertWhiteout, a second
\* pipe and the goroutine of whiteoutsToAUFS.  rc is closed on return.
OpenTar ==
    /\ rd = "unopened"
    /\ conf.reader = "tarConverter"
    /\ \E n \in 0..MaxEntries, outcome \in {"no reader", "no file", "copy failed", "ok"} :
        IF outcome = "no reader"
        THEN OpenFailed(errUpstream, Resources("none", "none"))
        ELSE IF outcome = "no file"
             THEN OpenFailed(errCopy, Resources("none", "closed"))
             ELSE IF outcome = "copy failed"
                  THEN OpenFailed(errCopy, Resources("present", "closed"))
                  ELSE IF conf.convertWhiteout
                       THEN Opened("filtPipe", Worker("run", TarStream(n), "converter", errNil),
                                   Worker("next", <<>>, "pipe", errNil),
                                   Resources("present", "closed"))
                       ELSE Opened("convPipe", Worker("run", TarStream(n), "converter", errNil),
                                   NoWorker, Resources("present", "closed"))
    /\ UNCHANGED <<conf, convPipe, filtPipe, notPipeVars>>

\* What a tar.Reader does with the next item of its source: an entry is
\* handed to the filter's tar.Writer; at the trailer Next returns io.EOF and
\* the filter returns nil.  A filter that returns without a write error writes
\* the trailer of its own stream (the deferred tw.Close()).
FilterGot(w, item) ==
    IF item = Entry THEN [w EXCEPT !.pc = "write"] ELSE [w EXCEPT !.pc = "trailer", !.err = errNil]

\* The converter writes its next item and whiteoutsToAUFS reads it.
ConverterToFilter ==
    /\ conv.pc = "run" /\ conv.left # <<>>
    /\ filt.pc = "next" /\ filt.source = "pipe"
    /\ conv' = [conv EXCEPT !.left = Tail(@)]
    /\ filt' = FilterGot(filt, Head(conv.left))
    /\ UNCHANGED <<conf, rd, convPipe, filtPipe, held, cons, notPipeVars>>

\* The converter writes its next item and the consumer reads it.
ConverterToConsumer ==
    /\ conv.pc = "run" /\ conv.left # <<>>
    /\ rd = "convPipe" /\ cons.pc = "reading" /\ cons.saw \in {"nothing", "data"}
    /\ conv' = [conv EXCEPT !.left = Tail(@)]
    /\ cons' = [cons EXCEPT !.saw = "data"]
    /\ UNCHANGED <<conf, rd, filt, convPipe, filtPipe, held, notPipeVars>>

\* cmd.Run returns: the converter has written its whole stream and exits,
\* with or without an error.
ConverterExits ==
    /\ conv.pc = "run" /\ conv.left = <<>>
    /\ \E e \in {errNil, errRun} :
        conv' = [conv EXCEPT !.pc = "exited", !.err = e]
    /\ UNCHANGED <<conf, rd, filt, convPipe, filtPipe, held, cons, notPipeVars>>

\* cmd.Run returns an error: the converter does not start, or fails before
\* it has written its whole stream.
ConverterFails ==
    /\ conv.pc = "run" /\ conv.left # <<>>
    /\ conv' = [conv EXCEPT !.pc = "exited", !.err = errRun]
    /\ UNCHANGED <<conf, rd, filt, convPipe, filtPipe, held, cons, notPipeVars>>

\* The converter's write fails: the read end of its pipe is closed.
ConverterWriteFails ==
    /\ conv.pc = "run" /\ conv.left # <<>>
    /\ convPipe.rclosed
    /\ conv' = [conv EXCEPT !.pc = "exited", !.err = errClosedPipe]
    /\ UNCHANGED <<conf, rd, filt, convPipe, filtPipe, held, cons, notPipeVars>>

\* convert() returns: the deferred os.Remove, then pw.CloseWithError.
ConverterFinish ==
    /\ conv.pc = "exited"
    /\ held' = [held EXCEPT !.sqfsFile = "removed"]
    /\ convPipe' = CloseWithError(convPipe, conv.err)
    /\ conv' = [conv EXCEPT !.pc = "done"]
    /\ UNCHANGED <<conf, rd, filt, filtPipe, cons, notPipeVars>>

\* whiteoutsToAUFS reads from the converter's pipe after its write end was
\* closed: io.EOF ends the stream, an error is returned.
FilterReadClosed ==
    /\ filt.pc = "next" /\ filt.source = "pipe"
    /\ convPipe.werr # "open"
    /\ filt' = [filt EXCEPT !.pc = "trailer",
                            !.err = IF convPipe.werr = "EOF" THEN errNil ELSE convPipe.werr]
    /\ UNCHANGED <<conf, rd, conv, convPipe, filtPipe, held, cons, notPipeVars>>

\* squash and whiteoutsToOverlayFS read the next entry of a layer: the read
\* may fail; squash writes nothing for an entry that is shadowed, a whiteout
\* or a hard link.
FilterReadLayer ==
    /\ filt.pc = "next" /\ filt.source = "layer"
    /\ \E ok \in BOOLEAN, written \in (IF conf.reader = "squashSelected" THEN BOOLEAN ELSE {TRUE}) :
        filt' = IF ~ok
                THEN [filt EXCEPT !.pc = "trailer", !.err = errUpstream]
                ELSE IF filt.left = <<>>
                     THEN [filt EXCEPT !.pc = "trailer", !.err = errNil]
                     ELSE IF Head(filt.left) = Entry /\ ~written
                          THEN [filt EXCEPT !.left = Tail(@)]
                          ELSE FilterGot([filt EXCEPT !.left = Tail(@)], Head(filt.left))
    /\ UNCHANGED <<conf, rd, conv, convPipe, filtPipe, held, cons, notPipeVars>>

\* The filter writes an entry, or its trailer, and the consumer reads it.
FilterToConsumer ==
    /\ filt.pc \in {"write", "trailer"}
    /\ rd = "filtPipe" /\ cons.pc = "reading" /\ cons.saw \in {"nothing", "data"}
    /\ filt' = [filt EXCEPT !.pc = IF filt.pc = "write" THEN "next" ELSE "finish"]
    /\ cons' = [cons EXCEPT !.saw = "data"]
    /\ UNCHANGED <<conf, rd, conv, convPipe, filtPipe, held, notPipeVars>>

\* The filter's write fails: the read end of its pipe is closed.  The filter
\* returns the error; the error of the deferred tw.Close() is dropped.
FilterWriteFails ==
    /\ filt.pc \in {"write", "trailer"}
    /\ filtPipe.rclosed
    /\ filt' = [filt EXCEPT !.pc = "finish",
                            !.err = IF filt.pc = "write" THEN errClosedPipe ELSE @]
    /\ UNCHANGED <<conf, rd, conv, convPipe, filtPipe, held, cons, notPipeVars>>

\* The filter's goroutine ends: the deferred rc.Close(), then
\* pw.CloseWithError.  Nothing closes the read end of the converter's pipe.
FilterFinish ==
    /\ filt.pc = "finish"
    /\ held' = [held EXCEPT !.rc = IF @ = "open" THEN "closed" ELSE @]
    /\ filtPipe' = CloseWithError(filtPipe, filt.err)
    /\ filt' = [filt EXCEPT !.pc = "done"]
    /\ UNCHANGED <<conf, rd, conv, convPipe, cons, notPipeVars>>

\* The pipe the consumer reads.
Returned_pipe == IF rd = "convPipe" THEN convPipe ELSE filtPipe

\* A Read on a pipe whose write end is closed: io.EOF or the error.
ConsumerReadClosed ==
    /\ cons.pc = "reading" /\ cons.saw \in {"nothing", "data"}
    /\ rd \in {"convPipe", "filtPipe"}
    /\ Returned_pipe.werr # "open"
    /\ cons' = [cons EXCEPT !.saw = Returned_pipe.werr]
    /\ UNCHANGED <<conf, rd, conv, filt, convPipe, filtPipe, held, notPipeVars>>

\* A Read on the layer reader that squashfsConverter.Uncompressed returned
\* as it is.
ConsumerReadLayer ==
    /\ cons.pc = "reading" /\ cons.saw \in {"nothing", "data"}
    /\ rd = "rc"
    /\ \E ok \in BOOLEAN :
        /\ cons' = [cons EXCEPT !.saw = IF ~ok THEN errUpstream
                                        ELSE IF filt.left = <<>> THEN "EOF" ELSE "data"]
        /\ filt' = [filt EXCEPT !.left = IF ok /\ @ # <<>> THEN Tail(@) ELSE @]
    /\ UNCHANGED <<conf, rd, conv, convPipe, filtPipe, held, notPipeVars>>

\* The consumer closes the reader it was given.
ConsumerClose ==
    /\ cons.pc = "reading"
    /\ cons' = [cons EXCEPT !.pc = "closed", !.early = cons.saw \in {"nothing", "data"}]
    /\ convPipe' = IF rd = "convPipe" THEN [convPipe EXCEPT !.rclosed = TRUE] ELSE convPipe
    /\ filtPipe' = IF rd = "filtPipe" THEN [filtPipe EXCEPT !.rclosed = TRUE] ELSE filtPipe
    /\ held' = IF rd = "rc" THEN [held EXCEPT !.rc = "closed"] ELSE held
    /\ UNCHANGED <<conf, rd, conv, filt, notPipeVars>>

\* The steps a converter that is not blocked takes by itself.
ConverterNext ==
    \/ ConverterExits
    \/ ConverterWriteFails
    \/ ConverterFinish

\* The steps a filter that is not blocked takes by itself.
FilterNext ==
    \/ ConverterToFilter
    \/ FilterReadClosed
    \/ FilterReadLayer
    \/ FilterWriteFails
    \/ FilterFinish

PipeNext ==
    \/ OpenSquashed
    \/ OpenSquashfsSource
    \/ OpenTar
    \/ ConverterToFilter
    \/ ConverterToConsumer
    \/ ConverterExits
    \/ ConverterFails
    \/ ConverterWriteFails
    \/ ConverterFinish
    \/ FilterReadClosed
    \/ FilterReadLayer
    \/ FilterToConsumer
    \/ FilterWriteFails
    \/ FilterFinish
    \/ ConsumerReadClosed
    \/ ConsumerReadLayer
    \/ ConsumerClose

-----------------------------------------------------------------------------
(* The whiteout translator: scanAUFSWhiteouts, whiteoutsToOverlayFS and     *)
(* whiteoutsToAUFS.  Names are the strings of the tar headers, as sequences *)
(* of components (a trailing slash is a final "" component; the empty       *)
(* string is <<"">>): the translator splits and concatenates them and never *)
(* cleans them.                                                             *)

MaxTarEntries == 3

TypeChar == "char"
schilyOpaqueXattr == "SCHILY.xattr.trusted.overlay.opaque"
errUnexpectedOpaque == "unexpected opaque marker"
Mode0600 == 384

\* A tar header with the fields the translator reads or writes.  PAXRecords
\* is the set of the keys whose value is "y".
TarHeader(t, n, c, mode, mtime) ==
    [Typeflag |-> t, Name |-> n, Size |-> ContentSize(c), Content |-> c, Mode |-> mode,
     Devmajor |-> 0, Devminor |-> 0, ModTime |-> mtime, PAXRecords |-> {}]

\* filepath.Split(name): the directory with its trailing slash, and the file.
SplitDir(n) == Front(n) \o <<"">>
SplitFile(n) == n[Len(n)]

\* parent + base, for a parent that filepath.Split returned.
Concat2(parent, base) == Front(parent) \o <<base>>

\* strings.TrimSuffix(name, "/")
TrimSlash(n) == IF Len(n) > 1 /\ n[Len(n)] = "" THEN Front(n) ELSE n

\* aufsWhiteoutPrefix + base
AddWhiteoutPrefix(base) ==
    IF \E w \in WhiteoutNames : TrimWhiteoutPrefix(w) = base
    THEN CHOOSE w \in WhiteoutNames : TrimWhiteoutPrefix(w) = base
    ELSE ".wh.?"

\* scanAUFSWhiteouts: the opaquePaths map (as the set of its keys) and the
\* fileWhiteout flag.
ScanResult(paths, whiteout) == [opaquePaths |-> paths, fileWhiteout |-> whiteout]

scanAUFSWhiteouts(in) ==
    ScanResult({SplitDir(in[k].Name) : k \in {j \in DOMAIN in : SplitFile(in[j].Name) = aufsOpaqueMarker}},
               \E k \in DOMAIN in : HasWhiteoutPrefix(SplitFile(in[k].Name)))

\* What the second pass writes for one header: nothing for an opaque marker,
\* the header with the xattr for a name in opaquePaths, a character device
\* for a whiteout (the header as it is but for name, type and device numbers;
\* no content is copied).
overlayFSEntry(header, opaquePaths) ==
    LET parent == SplitDir(header.Name)
        base == SplitFile(header.Name)
        marked == IF header.Name \in opaquePaths
                  THEN [header EXCEPT !.PAXRecords = @ \cup {schilyOpaqueXattr}]
                  ELSE header
    IN  IF base = aufsOpaqueMarker THEN <<>>
        ELSE IF HasWhiteoutPrefix(base)
             THEN <<[marked EXCEPT !.Name = Concat2(parent, TrimWhiteoutPrefix(base)),
                                   !.Typeflag = TypeChar,
                                   !.Devmajor = 0,
                                   !.Devminor = 0,
                                   !.Content = ""]>>
             ELSE <<marked>>

\* whiteoutsToOverlayFS: the stream written, and the error returned.
RECURSIVE whiteoutsToOverlayFS(_, _)
whiteoutsToOverlayFS(in, opaquePaths) ==
    IF in = <<>> THEN [out |-> <<>>, err |-> errNil]
    ELSE IF SplitFile(Head(in).Name) = aufsOpaqueMarker /\ SplitDir(Head(in).Name) \notin opaquePaths
         THEN [out |-> <<>>, err |-> errUnexpectedOpaque]
         ELSE LET rest == Only({whiteoutsToOverlayFS(Tail(in), o) : o \in {opaquePaths}})
              IN  [rest EXCEPT !.out = overlayFSEntry(Head(in), opaquePaths) \o @]

\* The opaque marker whiteoutsToAUFS writes after an opaque directory.
opaqueMarkerFor(header) ==
    [TarHeader(TypeReg, TrimSlash(header.Name) \o <<aufsOpaqueMarker>>, "", Mode0600, "zero")
        EXCEPT !.Size = 0]

\* What whiteoutsToAUFS writes for one header.
aufsEntry(header) ==
    IF header.Typeflag = TypeDir /\ schilyOpaqueXattr \in header.PAXRecords
    THEN <<[header EXCEPT !.PAXRecords = @ \ {schilyOpaqueXattr}], opaqueMarkerFor(header)>>
    ELSE IF header.Typeflag = TypeChar /\ header.Devmajor = 0 /\ header.Devminor = 0
         THEN <<[header EXCEPT !.Typeflag = TypeReg,
                               !.Name = Concat2(SplitDir(header.Name),
                                                AddWhiteoutPrefix(SplitFile(header.Name))),
                               !.Size = 0,
                               !.Mode = Mode0600]>>
         ELSE <<header>>

\* whiteoutsToAUFS: the stream written.
RECURSIVE whiteoutsToAUFS(_)
whiteoutsToAUFS(in) ==
    IF in = <<>> THEN <<>> ELSE aufsEntry(Head(in)) \o whiteoutsToAUFS(Tail(in))

\* The headers of the layers translated: the directory dir under three
\* spellings, its opaque marker under two, file whiteouts (one with content),
\* and a regular file.
TarHeaders ==
    {TarHeader(TypeDir, n, "", 493, "mtime") : n \in {<<"dir", "">>, <<"dir">>, <<".", "dir", "">>}}
    \cup {TarHeader(TypeReg, n, "", 420, "mtime") :
            n \in {<<"dir", aufsOpaqueMarker>>, <<".", "dir", aufsOpaqueMarker>>}}
    \cup {TarHeader(TypeReg, <<".wh.foo">>, "", mode, "mtime") : mode \in {Mode0600, 420}}
    \cup {TarHeader(TypeReg, <<"dir", ".wh.bar">>, "bar", Mode0600, "mtime"),
          TarHeader(TypeReg, <<"dir", "foo">>, "foo", 420, "mtime")}

RECURSIVE TarStreams(_)
TarStreams(n) ==
    IF n = 0 THEN {<<>>}
    ELSE LET shorter == TarStreams(n - 1)
         IN  shorter \cup {<<h>> \o s : h \in TarHeaders, s \in {t \in shorter : Len(t) = n - 1}}

NoScan == ScanResult({}, FALSE)

WhiteInit ==
    /\ aufsIn \in TarStreams(MaxTarEntries)
    /\ scanned = NoScan
    /\ overlayfsTar = <<>>
    /\ aufsTar = <<>>
    /\ wpc = "scan"

WhiteIdle ==
    /\ aufsIn = <<>>
    /\ scanned = NoScan
    /\ overlayfsTar = <<>>
    /\ aufsTar = <<>>
    /\ wpc = "idle"

\* The first pass.
ScanWhiteouts ==
    /\ wpc = "scan"
    /\ scanned' = scanAUFSWhiteouts(aufsIn)
    /\ wpc' = "overlayfs"
    /\ UNCHANGED <<aufsIn, overlayfsTar, aufsTar, notWhiteVars>>

\* The second pass, with the opaquePaths of the first.
ToOverlayFS ==
    /\ wpc = "overlayfs"
    /\ \E r \in {whiteoutsToOverlayFS(aufsIn, scanned.opaquePaths)} :
        /\ overlayfsTar' = r.out
        /\ wpc' = IF r.err = errNil THEN "aufs" ELSE "failed"
    /\ UNCHANGED <<aufsIn, scanned, aufsTar, notWhiteVars>>

\* Back to AUFS whiteouts.
ToAUFS ==
    /\ wpc = "aufs"
    /\ aufsTar' = whiteoutsToAUFS(overlayfsTar)
    /\ wpc' = "done"
    /\ UNCHANGED <<aufsIn, scanned, overlayfsTar, notWhiteVars>>

WhiteNext ==
    \/ ScanWhiteouts
    \/ ToOverlayFS
    \/ ToAUFS

-----------------------------------------------------------------------------
(* SquashfsLayer: the converter is looked up and checked, then the base     *)
(* layer's media type decides what is returned.                             *)

squashfsLayerMediaType == "application/vnd.sylabs.image.layer.v1.squashfs"
DockerLayer == "application/vnd.docker.image.rootfs.diff.tar.gzip"
DockerUncompressedLayer == "application/vnd.docker.image.rootfs.diff.tar"
OCIUncompressedLayer == "application/vnd.oci.image.layer.v1.tar"
\* A layer media type that the converter does not list.
OCILayerZStd == "application/vnd.oci.image.layer.v1.tar+zstd"

errExecNotFound == "executable file not found in $PATH"
errSquashfsConverterNotSupported == "squashfs converter not supported"
errUnsupportedLayerType == "unsupported layer type"

\* exec.LookPath on a machine with the programs installed.
LookPath(file, installed) ==
    IF file \in installed
    THEN [path |-> <<"usr", "bin", file>>, err |-> errNil]
    ELSE [path |-> <<>>, err |-> errExecNotFound]

\* struct squashfsConverter
Converter(converter, args, convertWhiteout) ==
    [converter |-> converter, args |-> args, convertWhiteout |-> convertWhiteout]

\* The options: OptSquashfsLayerConverter(converter), or none when converter
\* is "", and OptSquashfsSkipWhiteoutConversion(skip).
applyOpts(c, converter, skip, installed) ==
    LET p == LookPath(converter, installed)
    IN  IF converter # "" /\ p.err # errNil
        THEN [c |-> c, err |-> p.err]
        ELSE [c |-> [c EXCEPT !.converter = IF converter # "" THEN p.path ELSE @,
                              !.convertWhiteout = ~skip],
              err |-> errNil]

\* A default that takes tar2sqfs whether or not it is installed.
locate_any(c, installed) ==
    [c |-> [c EXCEPT !.converter = IF @ = <<>> THEN <<"usr", "bin", "tar2sqfs">> ELSE @],
     err |-> errNil]

\* The default converter: tar2sqfs, or else sqfstar.
locate(c, installed) ==
    IF c.converter # <<>>
    THEN [c |-> c, err |-> errNil]
    ELSE IF LookPath("tar2sqfs", installed).err = errNil
         THEN [c |-> [c EXCEPT !.converter = LookPath("tar2sqfs", installed).path], err |-> errNil]
         ELSE [c |-> [c EXCEPT !.converter = LookPath("sqfstar", installed).path],
               err |-> LookPath("sqfstar", installed).err]

NoResult(e) == [layer |-> NilLayer, c |-> Converter(<<>>, <<>>, FALSE), err |-> e]

\* squashfsConverter.layer
converterLayer(c, base) ==
    IF base.mt = squashfsLayerMediaType
    THEN [layer |-> base, c |-> c, err |-> errNil]
    ELSE IF base.mt \in {DockerLayer, DockerUncompressedLayer, OCILayer, OCIUncompressedLayer}
         THEN [layer |-> [mt |-> squashfsLayerMediaType, v |-> SquashfsLayer(base)],
               c |-> c, err |-> errNil]
         ELSE NoResult(errUnsupportedLayerType)

\* The switch on filepath.Base(c.converter) that sets c.args.
withArgs(c) ==
    IF Base(c.converter) = "tar2sqfs"
    THEN [c |-> [c EXCEPT !.args = <<"--compressor", "gzip">>], err |-> errNil]
    ELSE IF Base(c.converter) = "sqfstar"
         THEN [c |-> [c EXCEPT !.args = <<"-mkfs-time", "0", "-root-time", "0", "-root-uid", "0",
                                           "-root-gid", "0", "-root-mode", "0755">>],
               err |-> errNil]
         ELSE [c |-> c, err |-> errSquashfsConverterNotSupported]

\* SquashfsLayer(base, dir, opts...)
NewSquashfsLayer(base, converter, skip, installed) ==
    LET o == applyOpts(Converter(<<>>, <<>>, TRUE), converter, skip, installed)
    IN  IF o.err # errNil THEN NoResult(o.err)
        ELSE LET l == locate(o.c, installed)
             IN  IF l.err # errNil THEN NoResult(l.err)
                 ELSE LET a == withArgs(l.c)
                      IN  IF a.err # errNil THEN NoResult(a.err)
                          ELSE converterLayer(a.c, base)

\* ---- inputs ----

Programs == {"tar2sqfs", "sqfstar", "mksquashfs"}

MediaTypes == {squashfsLayerMediaType, DockerLayer, DockerUncompressedLayer, OCILayer,
               OCIUncompressedLayer, OCILayerZStd}

NoSqfsCall == [base |-> NilLayer, converter |-> "", skip |-> FALSE, installed |-> {}]

SqfsInit ==
    /\ sqArgs \in [base : {[mt |-> mt, diffID |-> <<"uA">>] : mt \in MediaTypes},
                   converter : Programs \cup {""},
                   skip : BOOLEAN,
                   installed : SUBSET Programs]
    /\ sqRet = NoResult("not called")

SqfsIdle ==
    /\ sqArgs = NoSqfsCall
    /\ sqRet = NoResult("not called")

SquashfsLayerCall ==
    /\ sqRet = NoResult("not called")
    /\ sqRet' = NewSquashfsLayer(sqArgs.base, sqArgs.converter, sqArgs.skip, sqArgs.installed)
    /\ UNCHANGED <<sqArgs, notSqfsVars>>

SqfsNext == SquashfsLayerCall

-----------------------------------------------------------------------------
(* One UpdateRootIndex, access by access, on a machine whose file system    *)
(* can fail: creating the scratch directory, writing into it, deleting      *)
(* from the container file and writing into the container file each         *)
(* succeed or return an input/output error.                                 *)

errIO == "input/output error"
errNoCacheDir == "cacheDir not set"
errNotExist == "no such file or directory"

\* The two versions of UpdateRootIndex: the one that creates the scratch
\* directory with the first cached blob (cacheDir of updateOpts), and the one
\* that creates it before the cache walk (blobCache).
Variants == {"cacheDir", "blobCache"}

\* The scratch directory under tempDir: whether it exists, and its files,
\* named by digest.
Scratch(exists, files) == [exists |-> exists, files |-> files]
NoScratch == Scratch(FALSE, {})

\* The call: where it is, its locals, the deferred calls registered so far,
\* and the container file as it was when the call began.
NoUpdate ==
    [pc |-> "idle", variant |-> "cacheDir", ii |-> Ix(NoIndex, {}, FALSE), cacheDir |-> "",
     cached |-> <<>>, keepBlobs |-> <<>>, defers |-> {}, err |-> errNil, before |-> NoObjects]

\* The deferred calls of UpdateRootIndex, run when it returns:
\* os.RemoveAll(uo.cacheDir) if uo.cacheDir is set, and os.RemoveAll(blobCache).
runDefers_none(u, sc) == sc

runDefers(u, sc) ==
    IF "RemoveAll(blobCache)" \in u.defers
       \/ ("RemoveAll(uo.cacheDir)" \in u.defers /\ u.cacheDir # "")
    THEN NoScratch
    ELSE sc

\* UpdateRootIndex returns e.
Return(e) ==
    /\ upd' = [upd EXCEPT !.pc = "done", !.err = e]
    /\ scratch' = runDefers(upd, scratch)

\* Return(e), from a step that has set some locals of the call first.
ReturnWith(u, sc, e) ==
    /\ upd' = [u EXCEPT !.pc = "done", !.err = e]
    /\ scratch' = runDefers(u, sc)

\* readCacheBlob
readCacheBlob(u, sc, h) ==
    IF u.variant = "cacheDir" /\ u.cacheDir = ""
    THEN errNoCacheDir
    ELSE IF h \notin sc.files THEN errNotExist ELSE errNil

\* ---- UpdateRootIndex as a state machine ----

UpdInit ==
    /\ \E raw \in RootIndexes :
        /\ sifFile = Write(raw)
        /\ last = Called("Write", errNil, FALSE, raw)
    /\ nops = 0
    /\ removed = FALSE
    /\ upd = NoUpdate
    /\ scratch = NoScratch

UpdIdle ==
    /\ upd = NoUpdate
    /\ scratch = NoScratch

\* UpdateRootIndex(ii) is called: the options are applied and, in the
\* cacheDir version, the removal of uo.cacheDir is deferred.
UpdBegin ==
    /\ upd.pc = "idle"
    /\ \E raw \in RootIndexes, v \in Variants :
        upd' = [upd EXCEPT !.pc = "compare", !.variant = v, !.ii = Ix(raw, {}, TRUE),
                           !.defers = IF v = "cacheDir" THEN {"RemoveAll(uo.cacheDir)"} ELSE {},
                           !.before = sifFile]
    /\ UNCHANGED <<sifFile, scratch, notUpdVars>>

\* f.RootIndex() and the comparison of the root digests.
UpdCompare ==
    /\ upd.pc = "compare"
    /\ \E sifRootIndex \in {RootIndex(sifFile)} :
        IF sifRootIndex.err # errNil
        THEN Return(sifRootIndex.err)
        ELSE IF SHA256(sifRootIndex.ix.raw) = SHA256(upd.ii.raw)
             THEN Return(errNil)
             ELSE /\ upd' = [upd EXCEPT !.pc = IF upd.variant = "blobCache" THEN "mkdir"
                                                                             ELSE "cache"]
                  /\ UNCHANGED scratch
    /\ UNCHANGED <<sifFile, notUpdVars>>

\* blobCache, err := os.MkdirTemp(uo.tempDir, ""), and defer os.RemoveAll(blobCache).
UpdMkdirTemp ==
    /\ upd.pc = "mkdir"
    /\ \E ok \in BOOLEAN :
        IF ~ok
        THEN Return(errIO)
        ELSE /\ upd' = [upd EXCEPT !.pc = "cache", !.cacheDir = "dir",
                                   !.defers = @ \cup {"RemoveAll(blobCache)"}]
             /\ scratch' = Scratch(TRUE, {})
    /\ UNCHANGED <<sifFile, notUpdVars>>

\* sifBlobs and the cache walk.  Each new blob is written into the scratch
\* directory by writeCacheBlob, which in the cacheDir version creates the
\* directory first if there is none.  The walk stops at the first write that
\* fails (the write of blob number fail), or at an entry it cannot read or
\* that has an unexpected media type, before which it has written some blobs
\* or none (wroteSome).
UpdCache ==
    /\ upd.pc = "cache"
    /\ \E c \in {cacheIndexBlobs(upd.ii, blobs, sifFile) : blobs \in {sifBlobs(sifFile)}} :
        \E mkdirOK \in BOOLEAN, wroteSome \in BOOLEAN, fail \in 0..Len(c.cached) :
            LET wrote == IF fail = 0 THEN Len(c.cached) ELSE fail - 1
                files == {c.cached[k] : k \in 1..wrote}
                writes == IF c.err # errNil THEN wroteSome ELSE c.cached # <<>>
                made == upd.variant = "cacheDir" /\ writes /\ mkdirOK
                u == IF made THEN [upd EXCEPT !.cacheDir = "dir"] ELSE upd
                sc == IF made \/ scratch.exists THEN Scratch(TRUE, files) ELSE scratch
            IN  IF writes /\ ~sc.exists
                THEN ReturnWith(u, sc, errIO)
                ELSE IF fail # 0
                     THEN ReturnWith(u, sc, errIO)
                     ELSE IF c.err # errNil
                          THEN ReturnWith(u, sc, c.err)
                          ELSE /\ upd' = [u EXCEPT !.pc = "delete", !.cached = c.cached,
                                                   !.keepBlobs = c.skipped]
                               /\ scratch' = sc
    /\ UNCHANGED <<sifFile, notUpdVars>>

\* f.sif.DeleteObjects(selectBlobsExcept(keepBlobs)).
UpdDelete ==
    /\ upd.pc = "delete"
    /\ \E ok \in BOOLEAN :
        \E d \in {DeleteObjects(sifFile, LAMBDA o : selectBlobsExcept(upd.keepBlobs, o))} :
            IF ~ok
            THEN Return(errIO) /\ UNCHANGED sifFile
            ELSE IF d.err # errNil
                 THEN Return(d.err) /\ UNCHANGED sifFile
                 ELSE /\ sifFile' = d.sif
                      /\ upd' = [upd EXCEPT !.pc = "write"]
                      /\ UNCHANGED scratch
    /\ UNCHANGED notUpdVars

\* One round of the loop over cachedBlobs: readCacheBlob and f.WriteBlob.
UpdWriteBlob ==
    /\ upd.pc = "write"
    /\ upd.cached # <<>>
    /\ \E ok \in BOOLEAN :
        LET b == Head(upd.cached)
            e == readCacheBlob(upd, scratch, b)
        IN  IF e # errNil
            THEN Return(e) /\ UNCHANGED sifFile
            ELSE IF ~ok
                 THEN Return(errIO) /\ UNCHANGED sifFile
                 ELSE /\ sifFile' = WriteBlob(sifFile, b.sha256)
                      /\ upd' = [upd EXCEPT !.cached = Tail(@)]
                      /\ UNCHANGED scratch
    /\ UNCHANGED notUpdVars

\* return f.writeRootIndex(bytes.NewReader(ri))
UpdWriteRoot ==
    /\ upd.pc = "write"
    /\ upd.cached = <<>>
    /\ \E ok \in BOOLEAN :
        IF ~ok
        THEN Return(errIO) /\ UNCHANGED sifFile
        ELSE /\ sifFile' = writeRootIndex(sifFile, upd.ii.raw)
             /\ Return(errNil)
    /\ UNCHANGED notUpdVars

UpdNext ==
    \/ UpdBegin
    \/ UpdCompare
    \/ UpdMkdirTemp
    \/ UpdCache
    \/ UpdDelete
    \/ UpdWriteBlob
    \/ UpdWriteRoot

-----------------------------------------------------------------------------
(* squash() with the loop of isShadowed taken one iteration at a time, on   *)
(* layers whose entry names may be absolute.  An absolute name has the      *)
(* leading component "/": "/a/foo" is <<"/", "a", "foo">>, and "/" is       *)
(* <<"/">>.                                                                 *)

pRoot == <<"/">>
pRootA == <<"/", "a">>
pRootFoo == <<"/", "a", "foo">>

MaxWalkLayers == 2

\* Changesets with relative names, with absolute names, and with both.
WalkPool ==
    { <<D(pA), D(pB), F(pFoo, "foo")>>,
      <<D(pA), D(pB), F(<<"a", "b", ".wh.foo">>, "")>>,
      <<F(pRootFoo, "foo")>>,
      <<D(pRootA), F(pRootFoo, "foo")>>,
      <<D(pRootA), F(<<"/", "a", ".wh.foo">>, "")>>,
      <<F(<<"/", aufsOpaqueMarker>>, "")>>,
      <<D(pA), F(pRootFoo, "foo")>> }

WalkStacks == UNION {[1..n -> WalkPool] : n \in 1..MaxWalkLayers}

\* Where isShadowed is: not running ("next"), or at the test of its loop
\* with the local name; turns counts the iterations of the loop modulo 2.
Walk(pc, name, turns) == [pc |-> pc, name |-> name, turns |-> turns]
NoWalk == Walk("next", <<>>, 0)

WalkInit ==
    /\ ls \in WalkStacks
    /\ li = Len(ls)
    /\ pos = 1
    /\ tw = <<>>
    /\ imageShadows = EmptyMap
    /\ imageLinks = EmptyMap
    /\ layerWhiteouts = EmptyMap
    /\ layerEntries = <<>>
    /\ walk = NoWalk

WalkIdle == walk = NoWalk

\* isShadowed has returned: the rest of writeChangesetEntry, and on to the
\* next entry of the layer.
WalkReturns ==
    /\ SetImageState(writeChangesetEntry(imageState, ls[li][pos]))
    /\ pos' = pos + 1
    /\ walk' = NoWalk

\* squash(): "hdr, err := tr.Next(); is.writeChangesetEntry(hdr, tr)", up to
\* the loop of isShadowed: a whiteout is recorded, and a name with an exact
\* shadow is shadowed without the loop.
WalkEntry ==
    /\ li >= 1
    /\ pos <= Len(ls[li])
    /\ walk.pc = "next"
    /\ LET hdr == ls[li][pos]
           name == Clean(hdr.Name)
       IN  IF HasWhiteoutPrefix(Base(hdr.Name)) \/ Shadow(imageShadows, name).exact
           THEN WalkReturns
           ELSE /\ walk' = Walk("loop", name, 0)
                /\ UNCHANGED <<pos, tw, imageShadows, imageLinks, layerWhiteouts, layerEntries>>
    /\ UNCHANGED <<ls, li, notWalkVars>>

\* isShadowed: "for name != '.' { dir := filepath.Dir(name); if
\* s.imageShadows[dir].children { return true }; name = dir }; return false".
WalkParent ==
    /\ walk.pc = "loop"
    /\ IF walk.name = <<>> \/ Shadow(imageShadows, Dir(walk.name)).children
       THEN WalkReturns
       ELSE /\ walk' = Walk("loop", Dir(walk.name), 1 - walk.turns)
            /\ UNCHANGED <<pos, tw, imageShadows, imageLinks, layerWhiteouts, layerEntries>>
    /\ UNCHANGED <<ls, li, notWalkVars>>

\* squash(): tr.Next() returns io.EOF; "is.commitChangeset()" and on to the next older layer.
WalkCommit ==
    /\ li >= 1
    /\ pos > Len(ls[li])
    /\ walk.pc = "next"
    /\ SetImageState(commitChangeset(imageState))
    /\ li' = li - 1
    /\ pos' = 1
    /\ UNCHANGED <<ls, walk, notWalkVars>>

WalkNext == WalkEntry \/ WalkParent \/ WalkCommit

-----------------------------------------------------------------------------
(* The SIF source of pkg/sourcesink: Get selects one entry of the root      *)
(* index by digest, reference name and platform.                            *)

ErrNoManifest == "no matching image / index found"
ErrMultipleManifests == "multiple matching images / indices found"
ErrUnsupportedMediaType == "unsupported media type"
ErrPlatformNotSatisfied == "image does not satisfy platform"

\* Options and descriptor fields that are not set.
NilPlatform == ""
NilDigest == ""
NilReference == ""

\* A descriptor's Annotations: a nil map, or a map whose ref.name entry is
\* refName ("" when the map has no such entry).
NilAnnotations == [isNil |-> TRUE, refName |-> ""]
Annotations(ref) == [isNil |-> FALSE, refName |-> ref]

\* desc.Annotations[imagespec.AnnotationRefName]: a nil map reads as empty.
RefName(desc) == IF desc.Annotations.isNil THEN "" ELSE desc.Annotations.refName

GetDesc(mt, digest, ann, platform) ==
    [MediaType |-> mt, Digest |-> digest, Annotations |-> ann, Platform |-> platform]

GetOpts(digest, reference, platform) ==
    [digest |-> digest, reference |-> reference, platform |-> platform]

\* ociplatform.DescriptorSatisfies: a descriptor without platform satisfies any.
DescriptorSatisfies(desc, platform) ==
    IF desc.Platform = NilPlatform THEN TRUE ELSE desc.Platform = platform

\* ociplatform.Matcher(p): images that satisfy p, and every non-image.
PlatformMatcher(p, desc) ==
    IF p # NilPlatform /\ IsImage(desc.MediaType) THEN DescriptorSatisfies(desc, p) ELSE TRUE

\* getMatcher(o) applied to desc.
getMatcher(o, desc) ==
    IF o.digest # NilDigest /\ desc.Digest # o.digest THEN FALSE
    ELSE IF o.reference # NilReference
            /\ (~desc.Annotations.isNil \/ RefName(desc) # o.reference) THEN FALSE
    ELSE IF o.reference = NilReference
            /\ ~desc.Annotations.isNil /\ RefName(desc) # "" THEN FALSE
    ELSE IF o.platform # NilPlatform /\ IsImage(desc.MediaType)
         THEN desc.Platform # NilPlatform /\ DescriptorSatisfies(desc, o.platform)
    ELSE TRUE

\* ---- inputs ----

MaxGetEntries == 2

\* The platform in the config file of a stored image; m3 has none.
ConfigPlatform(digest) ==
    CASE digest = "m1" -> "linux/amd64"
      [] digest = "m2" -> "linux/arm64"
      [] OTHER -> NilPlatform

\* The manifests of the stored index x1.
IndexChildren(digest) ==
    IF digest = "x1"
    THEN <<GetDesc(OCIManifestSchema1, "m1", NilAnnotations, "linux/amd64"),
           GetDesc(OCIManifestSchema1, "m2", NilAnnotations, "linux/arm64")>>
    ELSE <<>>

GetEntries ==
    {GetDesc(OCIManifestSchema1, "m1", NilAnnotations, NilPlatform),
     GetDesc(OCIManifestSchema1, "m1", Annotations("r1"), "linux/amd64"),
     GetDesc(OCIManifestSchema1, "m2", Annotations("r2"), "linux/arm64"),
     GetDesc(OCIManifestSchema1, "m3", Annotations(""), NilPlatform),
     GetDesc(OCIImageIndex, "x1", Annotations("r1"), NilPlatform),
     GetDesc(OCIImageIndex, "x1", NilAnnotations, NilPlatform),
     GetDesc(OCIManifestSchema1, "m2", NilAnnotations, "linux/amd64"),
     GetDesc(OtherArtifact, "a1", NilAnnotations, NilPlatform)}

GetRoots == UNION {[1..n -> GetEntries] : n \in 0..MaxGetEntries}

GetOptions ==
    {GetOpts(d, r, p) : d \in {NilDigest, "m1", "x1"}, r \in {NilReference, "r1", "r2"},
                        p \in {NilPlatform, "linux/amd64", "linux/arm64"}}

\* ---- Get ----

NoDesc == GetDesc("", NilDigest, NilAnnotations, NilPlatform)

\* What Get returns: the descriptor, the digest of the parent index of an
\* image found inside an index, and the error.
GetRet(desc, parent, e) == [desc |-> desc, parent |-> parent, err |-> e]

\* o.ofi.Image / o.ofi.Index with match.Digests(h): exactly one entry of the
\* root index with that digest and of that type.
singleByDigest(entries, h, wantIndex) ==
    LET ms == SelectSeq(entries, LAMBDA d : d.Digest = h /\ (IF wantIndex THEN IsIndex(d.MediaType)
                                                                       ELSE IsImage(d.MediaType)))
    IN  IF Len(ms) > 1 THEN ErrMultipleMatches
        ELSE IF Len(ms) = 0 THEN ErrNoMatch ELSE errNil

\* ociplatform.EnsureImageSatisfies: an image whose config names no platform
\* satisfies any.
EnsureImageSatisfies(digest, platform) ==
    IF ConfigPlatform(digest) = NilPlatform \/ ConfigPlatform(digest) = platform
    THEN errNil ELSE ErrPlatformNotSatisfied

imageFromIndex(digest, p) ==
    LET ims == SelectSeq(IndexChildren(digest),
                         LAMBDA d : PlatformMatcher(p, d) /\ IsImage(d.MediaType))
    IN  IF Len(ims) = 0 THEN GetRet(NoDesc, NilDigest, ErrNoManifest)
        ELSE IF Len(ims) > 1 THEN GetRet(NoDesc, NilDigest, ErrMultipleManifests)
        ELSE GetRet(GetDesc(ims[1].MediaType, ims[1].Digest, NilAnnotations, NilPlatform),
                    digest, errNil)

\* sifSourceSink.Get once FindManifests has returned ds.
getFrom(entries, o, ds) ==
    IF Len(ds) = 0 THEN GetRet(NoDesc, NilDigest, ErrNoManifest)
    ELSE IF Len(ds) > 1 THEN GetRet(NoDesc, NilDigest, ErrMultipleManifests)
    ELSE IF IsImage(ds[1].MediaType)
    THEN LET e == singleByDigest(entries, ds[1].Digest, FALSE)
         IN  IF e # errNil THEN GetRet(NoDesc, NilDigest, e)
             ELSE IF o.platform # NilPlatform
                     /\ EnsureImageSatisfies(ds[1].Digest, o.platform) # errNil
             THEN GetRet(NoDesc, NilDigest, ErrPlatformNotSatisfied)
             ELSE GetRet(ds[1], NilDigest, errNil)
    ELSE IF IsIndex(ds[1].MediaType)
    THEN LET e == singleByDigest(entries, ds[1].Digest, TRUE)
         IN  IF e # errNil THEN GetRet(NoDesc, NilDigest, e)
             ELSE IF o.platform = NilPlatform THEN GetRet(ds[1], NilDigest, errNil)
             ELSE imageFromIndex(ds[1].Digest, o.platform)
    ELSE GetRet(NoDesc, NilDigest, ErrUnsupportedMediaType)

\* ---- the source as a state machine ----

GetState(pc, entries, o, selected, ret) ==
    [pc |-> pc, entries |-> entries, opts |-> o, selected |-> selected, ret |-> ret]

NoOpts == GetOpts(NilDigest, NilReference, NilPlatform)

GetInit ==
    \E entries \in GetRoots :
        get = GetState("ready", entries, NoOpts, <<>>, GetRet(NoDesc, NilDigest, errNil))

GetIdle == get = GetState("idle", <<>>, NoOpts, <<>>, GetRet(NoDesc, NilDigest, errNil))

\* Get(ctx, opts...): selected is what FindManifests(getMatcher(gOpts)) returned.
GetCall ==
    /\ get.pc = "ready"
    /\ \E o \in GetOptions :
         \E ds \in {SelectSeq(get.entries, LAMBDA d : getMatcher(o, d))} :
             get' = GetState("done", get.entries, o, ds, getFrom(get.entries, o, ds))
    /\ UNCHANGED notGetVars

GetNext == GetCall

-----------------------------------------------------------------------------
(* Specifications.                                                          *)

\* squash() over a stack of selected layers.
InitSquash ==
    /\ SquashInit /\ MutateIdle /\ StoreIdle /\ ConcIdle /\ ReadIdle /\ PipeIdle /\ WhiteIdle
    /\ SqfsIdle /\ UpdIdle /\ WalkIdle /\ GetIdle

SpecSquash == InitSquash /\ [][SquashNext]_vars

\* Apply() with a list of mutations, then the first observation of the image.
InitMutate ==
    /\ MutateInit /\ SquashIdle /\ StoreIdle /\ ConcIdle /\ ReadIdle /\ PipeIdle /\ WhiteIdle
    /\ SqfsIdle /\ UpdIdle /\ WalkIdle /\ GetIdle

SpecMutate == InitMutate /\ [][MutateNext]_vars

\* Apply() with mutations of the config, then the first observation.
SpecMutateConfig == InitMutate /\ [][ConfigNext]_vars

\* A container file created by Write, then calls on the store, one at a time.
InitStore ==
    /\ StoreInit /\ SquashIdle /\ MutateIdle /\ ConcIdle /\ ReadIdle /\ PipeIdle /\ WhiteIdle
    /\ SqfsIdle /\ UpdIdle /\ WalkIdle /\ GetIdle

SpecStore == InitStore /\ [][StoreNext]_vars

\* A container file created by Write, then two calls on the store at once.
InitStoreConc ==
    /\ ConcInit /\ SquashIdle /\ MutateIdle /\ ReadIdle /\ PipeIdle /\ WhiteIdle
    /\ SqfsIdle /\ UpdIdle /\ WalkIdle /\ GetIdle

SpecStoreConc == InitStoreConc /\ [][ConcNext]_vars

\* A value not yet computed, then its first observation by several readers.
InitRead ==
    /\ ReadInit /\ SquashIdle /\ MutateIdle /\ StoreIdle /\ ConcIdle /\ PipeIdle /\ WhiteIdle
    /\ SqfsIdle /\ UpdIdle /\ WalkIdle /\ GetIdle

SpecRead == InitRead /\ [][ReadNext]_vars

\* A streaming reader is opened, read and closed while its goroutines run.
InitPipe ==
    /\ PipeInit /\ SquashIdle /\ MutateIdle /\ StoreIdle /\ ConcIdle /\ ReadIdle /\ WhiteIdle
    /\ SqfsIdle /\ UpdIdle /\ WalkIdle /\ GetIdle

SpecPipe == InitPipe /\ [][PipeNext]_vars

\* The same, with goroutines that run whenever they can: the Go scheduler
\* does not starve a goroutine that is not blocked, and a converter that has
\* written its stream, or whose write fails, exits.  Nothing is assumed of
\* the consumer, nor of a converter failing by itself.
SpecPipeFair ==
    /\ InitPipe
    /\ [][PipeNext]_vars
    /\ WF_vars(ConverterNext)
    /\ WF_vars(FilterNext)

\* A layer's tar stream is translated to OverlayFS whiteouts and back.
InitWhite ==
    /\ WhiteInit /\ SquashIdle /\ MutateIdle /\ StoreIdle /\ ConcIdle /\ ReadIdle /\ PipeIdle
    /\ SqfsIdle /\ UpdIdle /\ WalkIdle /\ GetIdle

SpecWhite == InitWhite /\ [][WhiteNext]_vars

\* SquashfsLayer is called on a base layer, with options, on a machine with
\* some converter programs installed.
InitSqfs ==
    /\ SqfsInit /\ SquashIdle /\ MutateIdle /\ StoreIdle /\ ConcIdle /\ ReadIdle /\ PipeIdle
    /\ WhiteIdle /\ UpdIdle /\ WalkIdle /\ GetIdle

SpecSqfs == InitSqfs /\ [][SqfsNext]_vars

\* One UpdateRootIndex on a stored index, with a file system that can fail.
InitUpd ==
    /\ UpdInit /\ SquashIdle /\ MutateIdle /\ ConcIdle /\ ReadIdle /\ PipeIdle /\ WhiteIdle
    /\ SqfsIdle /\ WalkIdle /\ GetIdle

SpecUpd == InitUpd /\ [][UpdNext]_vars

\* squash() with the loop of isShadowed step by step.
InitWalk ==
    /\ WalkInit /\ MutateIdle /\ StoreIdle /\ ConcIdle /\ ReadIdle /\ PipeIdle /\ WhiteIdle
    /\ SqfsIdle /\ UpdIdle /\ GetIdle

SpecWalk == InitWalk /\ [][WalkNext]_vars

\* squash() runs on one goroutine that is never held back.
SpecWalkFair == SpecWalk /\ WF_vars(WalkNext)

\* Get on the SIF source of a container file with a given root index.
InitGet ==
    /\ GetInit /\ SquashIdle /\ MutateIdle /\ StoreIdle /\ ConcIdle /\ ReadIdle /\ PipeIdle
    /\ WhiteIdle /\ SqfsIdle /\ UpdIdle /\ WalkIdle

SpecGet == InitGet /\ [][GetNext]_vars

-----------------------------------------------------------------------------
(* Claims about the layer-squash engine.                                    *)

\* The positions of the output entries at path p.
Written(p) == {k \in DOMAIN tw : Clean(tw[k].Name) = p}

\* The entry written for p comes from the newest layer that contains p.  (A hard link
\* may have been promoted to a full entry, so only its name is compared.)
FromNewest(p) ==
    LET src == EntryAt(ls[NewestWith(ls, p)], p)
    IN  \A k \in Written(p) :
            src.Typeflag # TypeLink =>
                tw[k].Typeflag = src.Typeflag /\ tw[k].Content = src.Content

\* C1: the squashed tar contains an entry for path p if and only if p is visible in
\* the overlay of the selected layers (p occurs as a non-whiteout entry in a layer
\* and no newer layer holds a file whiteout for p or an ancestor, an opaque marker on
\* an ancestor directory, or a non-directory entry at an ancestor); each visible
\* path appears exactly once, taken from the newest layer that contains it.
C1_SquashIsOverlay ==
    SquashDone =>
        \A p \in Paths :
            /\ (Written(p) # {}) <=> VisibleIn(ls, Len(ls), p)
            /\ Cardinality(Written(p)) <= 1
            /\ Written(p) # {} => FromNewest(p)

\* Layer l holds a hard link at path p whose target is path q.
HasLink(l, p, q) ==
    \E k \in DOMAIN l :
        l[k].Typeflag = TypeLink /\ Clean(l[k].Name) = p /\ Clean(l[k].Linkname) = q

\* Layer l holds a file whiteout for path p.
HasFileWhiteout(l, p) ==
    \E k \in DOMAIN l :
        IsWhiteout(l[k]) /\ Base(l[k].Name) # aufsOpaqueMarker /\ WhiteoutTarget(l[k]) = p

\* The hard-link chain of the corpus image hard-link-delete-4: a layer with regular
\* file A and hard link B to A, a newer layer with hard link C to B, a still newer layer
\* that removes B with a whiteout; A and C survive.
LinkChainCut(A, B, C) ==
    /\ \E i, j, k \in DOMAIN ls :
          /\ i < j /\ j < k
          /\ Occurs(ls[i], A) /\ EntryAt(ls[i], A).Typeflag = TypeReg
          /\ HasLink(ls[i], B, A)
          /\ HasLink(ls[j], C, B)
          /\ HasFileWhiteout(ls[k], B)
          /\ SurvivesFrom(ls, i, Len(ls), A)
          /\ SurvivesFrom(ls, j, Len(ls), C)
    /\ ~VisibleIn(ls, Len(ls), B)

\* C2: in that chain the squashed output contains A, contains C as a hard link whose
\* linkname is A, and contains no B.
C2_LinkRerootedOnSurvivor ==
    (SquashDone /\ LinkChainCut(pFoo, pBar, pBaz)) =>
        /\ Written(pFoo) # {}
        /\ \E k \in Written(pBaz) :
              tw[k].Typeflag = TypeLink /\ Clean(tw[k].Linkname) = pFoo
        /\ Written(pBar) = {}

\* The header's base name is a whiteout name.
HasWhiteoutName(h) == Base(h.Name) \in WhiteoutNames

\* C17: no entry of the squashed output has a base name that begins with
\* ".wh.".
C17_NoWhiteoutInOutput == \A k \in DOMAIN tw : ~HasWhiteoutName(tw[k])

\* A stack with whiteouts has been squashed into a stream with entries.
C17_Witness ==
    /\ SquashDone
    /\ tw # <<>>
    /\ \E i \in DOMAIN ls : \E k \in DOMAIN ls[i] : HasWhiteoutName(ls[i][k])

\* The output entry e is the layer's entry h: the same path, type, link name
\* and content.
SameEntry(e, h) ==
    /\ Clean(e.Name) = Clean(h.Name)
    /\ e.Typeflag = h.Typeflag
    /\ Clean(e.Linkname) = Clean(h.Linkname)
    /\ e.Content = h.Content

\* The entries of a stream that are not hard links, in their order.
NonLinks(s) == SelectSeq(s, LAMBDA h : h.Typeflag # TypeLink)

\* C18: squashing a single layer L that holds no whiteouts gives a tar
\* stream equivalent to L: the same set of entries with the same types, link
\* names and contents, the entries that are not hard links in the same
\* relative order.
C18_SingleLayerKept ==
    (SquashDone /\ Len(ls) = 1 /\ \A k \in DOMAIN ls[1] : ~HasWhiteoutName(ls[1][k])) =>
        /\ \A k \in DOMAIN ls[1] : \E j \in DOMAIN tw : SameEntry(tw[j], ls[1][k])
        /\ \A j \in DOMAIN tw : \E k \in DOMAIN ls[1] : SameEntry(tw[j], ls[1][k])
        /\ Len(NonLinks(tw)) = Len(NonLinks(ls[1]))
        /\ \A n \in DOMAIN NonLinks(tw) : SameEntry(NonLinks(tw)[n], NonLinks(ls[1])[n])

-----------------------------------------------------------------------------
(* Claims about the mutation pipeline.                                      *)

\* The last call was SquashSubset(base, start, end) with 0 <= start < end <= n.
SubsetInRange ==
    /\ op.call = "SquashSubset"
    /\ 0 <= op.start
    /\ op.start < op.end
    /\ op.end <= Len(baseImg.layers)

\* What the documentation of SquashSubset promises: L[0..start), one squashed
\* layer, L[end..n).
SubsetExpected ==
    LET L0 == baseImg.layers
    IN  SubSeq(L0, 1, op.start)
            \o <<squashedLayer(SubSeq(L0, op.start + 1, op.end))>>
            \o SubSeq(L0, op.end + 1, Len(L0))

\* C6: SquashSubset(base, start, end) with 0 <= start < end <= n yields an
\* image whose layers are, in order, L[0..start), one squashed layer, and
\* L[end..n): every layer outside the range keeps its relative position.
C6_SubsetReplacesRange ==
    (SubsetInRange /\ phase = "computed") => Layers(img) = SubsetExpected

\* The rootfs.diff_ids of the config file equal the diff IDs of layers().
DiffIDsConsistent(im) == ConfigFile(im).cf.DiffIDs = DiffIDsOf(Layers(im))

\* C7 as stated: for every image produced by Apply, Squash or SquashSubset whose
\* config file can be read, rootfs.diff_ids equals the diff IDs of layers(),
\* in the same order and of the same length.
C7_DiffIDsAlways ==
    (phase = "computed" /\ ConfigFile(img).err = errNil) => DiffIDsConsistent(img)

\* C7: for every image produced by Apply, Squash or SquashSubset whose config
\* media type is one of the standard config types, the config file is readable
\* and its rootfs.diff_ids equals the diff IDs of layers(), in the same order
\* and of the same length.
C7_DiffIDsOfStandardConfig ==
    (phase = "computed" /\ IsConfig(img.manifest.Config.MediaType)) =>
        /\ ConfigFile(img).err = errNil
        /\ DiffIDsConsistent(img)

\* A standard-type config set by SetConfig on an image of two or more layers,
\* one of them replaced, has been materialised with the layers' diff IDs.
C7_Witness ==
    /\ phase = "computed"
    /\ IsConfig(img.manifest.Config.MediaType)
    /\ img.configFileOverride # NilConfig
    /\ \E k \in DOMAIN img.overrides : img.overrides[k] # NilLayer
    /\ Len(img.diffIDs) >= 2
    /\ ConfigFile(img).cf.DiffIDs = img.diffIDs
    /\ DiffIDsConsistent(img)

\* The selection s holds an index outside the valid range of an image of n layers.
HasOutOfRange(s, n) ==
    \E k \in DOMAIN s.idx :
        LET index == IF s.idx[k] < 0 THEN s.idx[k] + n ELSE s.idx[k]
        IN  index < 0 \/ n <= index

\* C8: squashing an image of n layers with a selection that contains an index
\* outside the valid range fails with the index-out-of-range error, whatever
\* other indexes the selection contains.
C8_OutOfRangeFails ==
    (/\ op.call = "SquashSubset"
     /\ HasOutOfRange(rangeLayerSelector(op.start, op.end), Len(baseImg.layers)))
        => (phase = "failed" /\ err = errLayerIndexOutOfRange)

-----------------------------------------------------------------------------
(* Claims about the artifact store.                                         *)

\* The digests of the stored OCI.Blob objects.
BlobDigests(s) == {OCIBlobDigest(o) : o \in Selected(s, LAMBDA x : WithDataType(DataOCIBlob, x))}

\* The digests transitively reachable from the descriptors descs: every
\* layer, config, image manifest and nested index manifest.
RECURSIVE Reachable(_)
Reachable(descs) ==
    UNION {{descs[k].Digest} \cup Reachable(descs[k].Digest.sha256.refs) : k \in DOMAIN descs}

\* The number of root-index objects in the file.
RECURSIVE CountCopies(_, _)
CountCopies(s, objs) ==
    IF objs = {} THEN 0
    ELSE LET o == CHOOSE x \in objs : TRUE IN s[o] + CountCopies(s, objs \ {o})

RootIndexCount(s) == CountCopies(s, Selected(s, LAMBDA x : WithDataType(DataOCIRootIndex, x)))

\* The last call was UpdateRootIndex(I), directly or from an append, a replace
\* or a RemoveManifests, and it returned successfully.
Updated ==
    /\ last.call \in {"UpdateRootIndex", "AppendImage", "AppendIndex", "ReplaceImage",
                      "ReplaceIndex", "RemoveManifests"}
    /\ last.err = errNil

AllReferencedStored(s) ==
    \A r \in Selected(s, LAMBDA x : WithDataType(DataOCIRootIndex, x)) :
        Reachable(r.data.refs) \subseteq BlobDigests(s)

\* C4 as stated: in every state reachable from Write through UpdateRootIndex,
\* AppendImage/AppendIndex, ReplaceImage/ReplaceIndex, RemoveManifests,
\* RemoveBlob and WriteBlob, every descriptor transitively referenced from the
\* root index has a stored OCI-blob with that digest.
C4_ReferencedBlobsStored == AllReferencedStored(sifFile)

\* C4: in every state reachable from Write through UpdateRootIndex,
\* AppendImage/AppendIndex, ReplaceImage/ReplaceIndex, RemoveManifests and
\* WriteBlob, with no successful RemoveBlob, every descriptor transitively
\* referenced from the root index has a stored OCI-blob with that digest.
C4_ReferencedBlobsStoredUnlessRemoved == ~removed => AllReferencedStored(sifFile)

\* A ReplaceImage has rewritten the root index of a file from which no blob
\* was removed, and everything the new root refers to is stored.
C4_Witness ==
    /\ ~removed
    /\ last.call = "ReplaceImage"
    /\ last.err = errNil
    /\ ~last.same
    /\ \E r \in DOMAIN sifFile : r.DataType = DataOCIRootIndex /\ Len(r.data.refs) >= 2
    /\ AllReferencedStored(sifFile)

\* C5: after Write, and after every operation on the store that returns
\* successfully, the container file holds exactly one root-index object.
C5_OneRootIndex == last.err = errNil => RootIndexCount(sifFile) = 1

\* The last call was an AppendImage or an AppendIndex that returned
\* successfully.
Appended == last.call \in {"AppendImage", "AppendIndex"} /\ last.err = errNil

\* The descriptor the call appended: the last one of the index it handed to
\* UpdateRootIndex.
AppendedItem == last.index.refs[Len(last.index.refs)]

\* The root-index objects of file s.
RootObjects(s) == Selected(s, LAMBDA x : WithDataType(DataOCIRootIndex, x))

\* The root-index entries of file s that carry the reference name r, each as
\* its object and its position.
Named(s, r) ==
    UNION {{<<o, k>> : k \in {n \in DOMAIN o.data.refs : o.data.refs[n].name = r}} :
              o \in RootObjects(s)}

RootDigests(s) == UNION {{o.data.refs[k].Digest : k \in DOMAIN o.data.refs} : o \in RootObjects(s)}

\* C20: AppendImage and AppendIndex never drop a manifest: every digest that
\* an entry of the root index referred to before the call is still referred to
\* after it, the one whose annotation was stripped included, and the appended
\* item is referred to.
C20_AppendKeepsManifests ==
    [][(nops' = nops + 1 /\ last'.call \in {"AppendImage", "AppendIndex"} /\ last'.err = errNil) =>
          /\ RootDigests(sifFile) \subseteq RootDigests(sifFile')
          /\ last'.index.refs[Len(last'.index.refs)].Digest \in RootDigests(sifFile')]_vars

\* An append with a name has returned successfully on a root index that had
\* entries, and the file refers to all of them and to the appended item.
C20_Witness ==
    /\ Appended
    /\ AppendedItem.name = "r1"
    /\ Len(last.index.refs) >= 3
    /\ {last.index.refs[k].Digest : k \in DOMAIN last.index.refs} \subseteq RootDigests(sifFile)

\* The entries of the root index that RootIndex reads from file s.
RootEntries(s) == RootIndex(s).ix.raw.refs

\* The entries of the root-index objects of file s, each as its object and its
\* position.
EntriesOf(s) == UNION {{<<o, k>> : k \in DOMAIN o.data.refs} : o \in RootObjects(s)}

EntryAtRoot(e) == e[1].data.refs[e[2]]

\* The step is a ReplaceImage or ReplaceIndex of add with the matcher m and the
\* reference name ref that returned successfully.
ReplacedBy(add, m, ref) ==
    /\ nops' = nops + 1
    /\ last'.call \in {"ReplaceImage", "ReplaceIndex"}
    /\ last'.err = errNil
    /\ last'.index = appendToIndex(RemoveFromIndex(RootIndex(sifFile).ix, m), add, ref).raw

\* What C21 says of the file after a successful replace of add with matcher m:
\* an entry refers to add; no entry but the one the call appended is an entry
\* that m selected before the call; and every manifest that an entry m did not
\* select referred to is still referred to by an entry.
ReplacePost(add, m) ==
    /\ \E e \in EntriesOf(sifFile') : EntryAtRoot(e).Digest = SHA256(add)
    /\ \A e \in EntriesOf(sifFile') :
          (\E k \in DOMAIN RootEntries(sifFile) :
               /\ Matches(m, RootEntries(sifFile)[k])
               /\ RootEntries(sifFile)[k] = EntryAtRoot(e))
          => (e[1].data = last'.index /\ e[2] = Len(e[1].data.refs))
    /\ \A k \in DOMAIN RootEntries(sifFile) :
          ~Matches(m, RootEntries(sifFile)[k]) =>
              \E e \in EntriesOf(sifFile') :
                  /\ EntryAtRoot(e).Digest = RootEntries(sifFile)[k].Digest
                  /\ EntryAtRoot(e).MediaType = RootEntries(sifFile)[k].MediaType

\* C21: after ReplaceImage or ReplaceIndex(x, matcher) succeeds, the root index
\* contains an entry for x and none of the entries that the matcher selected
\* before the call, and every entry the matcher did not select is retained.
C21_ReplaceSwapsEntries ==
    [][\A add \in Images \cup ChildIndexes, m \in Matchers, ref \in Refs :
          ReplacedBy(add, m, ref) => ReplacePost(add, m)]_vars

\* The step is a RemoveManifests with the matcher m on a file whose root index
\* can be read.
RemoveManifestsBy(m) ==
    /\ nops' = nops + 1
    /\ last'.call = "RemoveManifests"
    /\ RootIndex(sifFile).err = errNil
    /\ last'.index = RemoveFromIndex(RootIndex(sifFile).ix, m).raw

SelectsNothing(m, s) == \A k \in DOMAIN RootEntries(s) : ~Matches(m, RootEntries(s)[k])

\* C22: after RemoveManifests(matcher) succeeds, the root index consists of
\* exactly the previous root entries that the matcher did not select, in their
\* previous order; when the matcher selects nothing the call succeeds and the
\* store is unchanged.
C22_RemoveKeepsTheRest ==
    [][\A m \in Matchers :
          RemoveManifestsBy(m) =>
              /\ last'.err = errNil =>
                    /\ RootIndexCount(sifFile') = 1
                    /\ RootIndex(sifFile').err = errNil
                    /\ RootEntries(sifFile') =
                           SelectSeq(RootEntries(sifFile), LAMBDA d : ~Matches(m, d))
              /\ SelectsNothing(m, sifFile) => (last'.err = errNil /\ sifFile' = sifFile)]_vars

\* A RemoveManifests has returned successfully and left a root index with
\* one entry, having removed the entry named r1 that stood before it.
C22_Witness ==
    /\ last.call = "RemoveManifests"
    /\ last.err = errNil
    /\ ~last.same
    /\ RootIndex(sifFile).err = errNil
    /\ RootEntries(sifFile) = <<Desc(OCIManifestSchema1, image2, "")>>
    /\ BlobDigests(sifFile) = Reachable(RootEntries(sifFile))

\* The step is a RemoveBlob of the digest h.
RemovedBlob(h) ==
    /\ nops' = nops + 1
    /\ last'.call = "RemoveBlob"
    /\ sifFile' = RemoveBlob(sifFile, h).sif
    /\ last'.err = RemoveBlob(sifFile, h).err

\* C23: RemoveBlob(d) deletes only the stored OCI-blob object whose digest is
\* d: the root-index object is left untouched and every stored blob with a
\* different digest remains present with unchanged content.
C23_RemoveBlobOnlyThatBlob ==
    [][\A h \in StoredDigests(sifFile) \cup {SHA256(blobJunk)} :
          RemovedBlob(h) =>
              /\ DOMAIN sifFile' \subseteq DOMAIN sifFile
              /\ \A o \in DOMAIN sifFile :
                    (o.DataType = DataOCIRootIndex \/ OCIBlobDigest(o) # h) =>
                        Copies(sifFile', o) = Copies(sifFile, o)]_vars

\* The positions of the root-index entries of file s that the matcher m
\* selects and whose media type is of the type.
SelectedOfType(s, m, isType(_)) ==
    {k \in DOMAIN RootEntries(s) :
        Matches(m, RootEntries(s)[k]) /\ isType(RootEntries(s)[k].MediaType)}

\* The step is the read named call, with the matcher m, of a file whose root
\* index can be read; read(s, m) is what that read returns.
ReadBy(call, read(_, _), m) ==
    /\ nops' = nops + 1
    /\ last'.call = call
    /\ RootIndex(sifFile).err = errNil
    /\ last'.err = read(sifFile, m).err
    /\ last'.index = read(sifFile, m).raw

\* What C24 says the read returned, by the number of entries selected.
SingleMatchPost(sel) ==
    /\ Cardinality(sel) = 1 =>
          /\ last'.err = errNil
          /\ \A k \in sel : SHA256(last'.index) = RootEntries(sifFile)[k].Digest
    /\ Cardinality(sel) = 0 => last'.err = ErrNoMatch
    /\ Cardinality(sel) > 1 => last'.err = ErrMultipleMatches

ReadErrors(s, sel) == {Bytes(s, RootEntries(s)[k].Digest).err : k \in sel} \ {errNil}

ListedLayers(raw) == {ManifestLayers(raw)[k].Digest : k \in DOMAIN ManifestLayers(raw)}

\* C25: for every image, LayerByDigest(h) returns a layer if and only if h is
\* the digest of one of the descriptors of the manifest's layers list; it
\* returns no layer for the config digest or for any other digest.  Here the
\* image is the stored image that Image(matcher) has just returned, and h is
\* any digest of the file, or one that the file does not have.
C25_LayerIffListed ==
    (last.call = "Image" /\ last.err = errNil) =>
        \A h \in StoredDigests(sifFile) \cup {SHA256(blobJunk)} :
            /\ coreLayerByDigest(last.index, h).err = errNil <=> h \in ListedLayers(last.index)
            /\ imageLayerByDigest(last.index, h).err = errNil <=> h \in ListedLayers(last.index)

-----------------------------------------------------------------------------
(* Claims about concurrent use.                                             *)

\* The file after the call first and then the call second, each made alone.
InOrder(first, second) == Only({RunAlone(second, s).sif : s \in {RunAlone(first, sif0).sif}})

\* C9: two mutating operations invoked concurrently through the same handle
\* are serialised: once both have returned, the container file is the one
\* that results from running the two operations one after the other in some
\* order.
C9_Serialised ==
    (\A t \in Threads : calls[t].pc = "done") =>
        sifFile \in {InOrder(calls[1].op, calls[2].op), InOrder(calls[2].op, calls[1].op)}

Inside == {t \in DOMAIN readers : readers[t].pc \in {"locked", "computing", "unlock"}}

Returned_nil == {t \in DOMAIN readers : readers[t].pc = "done" /\ readers[t].err = errNil}

AllReturned == readers # <<>> /\ \A t \in DOMAIN readers : readers[t].pc = "done"

\* C10 as stated: when several readers observe the same value for the first
\* time, the computation is run by exactly one of them, and every reader
\* observes the same computed result.
C10_ComputedByExactlyOne ==
    AllReturned =>
        /\ Len(ran) = 1
        /\ \A t \in DOMAIN readers : readers[t].seen = shared

\* C10: when several readers observe the same value for the first time, at
\* most one of them is inside populate at a time and the others wait for the
\* mutex; a computation that succeeds is the last one run, so it is run by
\* exactly one reader, and every reader to which populate returned no error
\* observes the same computed result.  (A computation that fails sets no
\* computed flag: the next reader runs it again.)
C10_ComputedOnceOnSuccess ==
    /\ Cardinality(Inside) <= 1
    /\ \A j \in DOMAIN ran : ran[j].err = errNil => j = Len(ran)
    /\ \A t \in Returned_nil : readers[t].seen = shared /\ shared.v.computed

\* Every reader has returned without error from a populate that only the
\* first of them computed.
C10_Witness ==
    /\ AllReturned
    /\ Cardinality(DOMAIN readers) >= 2
    /\ Returned_nil = DOMAIN readers
    /\ Len(ran) = 1
    /\ \A t \in DOMAIN readers : readers[t].seen = shared

-----------------------------------------------------------------------------
(* Claims about the streaming readers.                                      *)

\* The consumer closed the reader before a Read returned EOF or an error.
ClosedEarly == cons.pc = "closed" /\ cons.early

\* No goroutine is left and nothing is held: no temporary file, no open
\* upstream reader.
Released ==
    /\ conv.pc \in {"none", "done"}
    /\ filt.pc \in {"none", "done"}
    /\ held.sqfsFile # "present"
    /\ held.rc # "open"

\* C11: when the consumer closes a streaming reader before reaching EOF,
\* every producer goroutine eventually terminates and nothing it holds (the
\* goroutine, upstream readers, the temporary file) is left behind.
C11_EarlyCloseReleases == ClosedEarly ~> Released

\* The SquashFS-to-tar conversion is over: the opener failed, or convert()
\* returned.
ConversionOver ==
    /\ conf.reader = "tarConverter"
    /\ (rd = "none" \/ conv.pc = "done")

\* C12: on every exit path of the SquashFS-to-tar conversion (success, a
\* failure copying the layer into the temporary file, a failure to start or
\* run the converter, the consumer closing early) the temporary SquashFS file
\* is deleted.
C12_TempFileDeleted == ConversionOver => held.sqfsFile # "present"

\* A producer stopped because of an error.
Failed(w) == w.pc \in {"exited", "trailer", "finish", "done"} /\ w.err # errNil
ProducerFailed == Failed(conv) \/ Failed(filt)

\* C13: once a streaming producer has stopped because of an error, no Read
\* of the consumer returns a clean EOF.
C13_NoEOFAfterFailure ==
    [][(ProducerFailed /\ cons.saw # "EOF") => cons'.saw # "EOF"]_vars

-----------------------------------------------------------------------------
(* Claims about the whiteout translator.                                    *)

IsOpaqueMarker(h) == SplitFile(h.Name) = aufsOpaqueMarker
IsFileWhiteout(h) == HasWhiteoutPrefix(SplitFile(h.Name)) /\ ~IsOpaqueMarker(h)

\* whiteoutsToOverlayFS has written overlayfsTar.
Translated == wpc \in {"aufs", "done"}

\* C14: for a tar stream that holds only AUFS whiteouts (no character
\* devices, no overlay opaque xattrs), translating to OverlayFS whiteouts and
\* back yields the same sequence of entries: names, order, types, metadata
\* and content.
C14_RoundTrip == wpc = "done" => aufsTar = aufsIn

\* The entry claimed for the file whiteout h: a character device 0:0 of size
\* 0 at <parent>/<x>.
IsWhiteoutDevice(e, h) ==
    /\ Clean(e.Name) = Join(Dir(h.Name), TrimWhiteoutPrefix(Base(h.Name)))
    /\ e.Typeflag = TypeChar
    /\ e.Devmajor = 0
    /\ e.Devminor = 0
    /\ e.Size = 0

\* C15: the AUFS-to-OverlayFS translation rewrites every .wh.<x> entry other
\* than the opaque marker into a character device with major 0, minor 0 and
\* size 0 at <parent>/<x>, and its output has no entry named .wh.<x>.
C15_WhiteoutsBecomeDevices ==
    Translated =>
        /\ \A i \in DOMAIN aufsIn :
            IsFileWhiteout(aufsIn[i]) =>
                \E j \in DOMAIN overlayfsTar : IsWhiteoutDevice(overlayfsTar[j], aufsIn[i])
        /\ \A j \in DOMAIN overlayfsTar : ~HasWhiteoutPrefix(Base(overlayfsTar[j].Name))

\* The directory header d is the parent of the opaque marker h, however its
\* name is spelled.
IsParentOf(d, h) == d.Typeflag = TypeDir /\ Clean(d.Name) = Dir(h.Name)

\* C16: the AUFS-to-OverlayFS translation conveys every opaque marker: for
\* each .wh..wh..opq whose parent directory has a header in the layer, the
\* output holds that directory's entry with the PAX record
\* SCHILY.xattr.trusted.overlay.opaque = "y", however the directory's name is
\* spelled, and the marker itself is dropped.
C16_OpaqueConveyed ==
    Translated =>
        /\ \A i, k \in DOMAIN aufsIn :
            (IsOpaqueMarker(aufsIn[i]) /\ IsParentOf(aufsIn[k], aufsIn[i])) =>
                \E j \in DOMAIN overlayfsTar :
                    /\ overlayfsTar[j].Name = aufsIn[k].Name
                    /\ overlayfsTar[j].Typeflag = TypeDir
                    /\ schilyOpaqueXattr \in overlayfsTar[j].PAXRecords
        /\ \A j \in DOMAIN overlayfsTar : ~IsOpaqueMarker(overlayfsTar[j])

-----------------------------------------------------------------------------
(* Claims about the squashfs converter.                                     *)

SqfsCalled == sqRet # NoResult("not called")

TarLayerTypes == {DockerLayer, DockerUncompressedLayer, OCILayer, OCIUncompressedLayer}

\* What the media type of the base layer alone would decide.
MediaTypeOutcome ==
    /\ sqArgs.base.mt = squashfsLayerMediaType =>
        sqRet.err = errNil /\ sqRet.layer = sqArgs.base
    /\ sqArgs.base.mt \notin TarLayerTypes \cup {squashfsLayerMediaType} =>
        sqRet.err = errUnsupportedLayerType /\ sqRet.layer = NilLayer

\* C26: the outcome of SquashfsLayer is determined by the base layer's media
\* type, whichever converter programs are installed or requested: a SquashFS
\* base layer is passed through as the result, and a base layer that is
\* neither a recognised tar layer nor SquashFS fails with
\* ErrUnsupportedLayerType.
C26_MediaTypeDecides == SqfsCalled => MediaTypeOutcome

SupportedConverters == {"tar2sqfs", "sqfstar"}

\* A supported converter is found: the requested one is installed and is
\* tar2sqfs or sqfstar, or none is requested and one of the two is installed.
ConverterFound ==
    IF sqArgs.converter # ""
    THEN sqArgs.converter \in sqArgs.installed \cap SupportedConverters
    ELSE sqArgs.installed \cap SupportedConverters # {}

\* C26, amended: when a supported converter is found, the outcome of
\* SquashfsLayer is determined by the base layer's media type: a SquashFS base
\* layer is passed through as the result, and a base layer that is neither a
\* recognised tar layer nor SquashFS fails with ErrUnsupportedLayerType; when
\* none is found, SquashfsLayer fails, whatever the media type: with "squashfs
\* converter not supported" when the requested program is installed, and with
\* the lookup error otherwise.
C26_MediaTypeDecidesWithConverter ==
    SqfsCalled =>
        IF ConverterFound
        THEN MediaTypeOutcome
        ELSE /\ sqRet.layer = NilLayer
             /\ sqRet.err = IF sqArgs.converter \in sqArgs.installed
                            THEN errSquashfsConverterNotSupported
                            ELSE errExecNotFound

\* A SquashFS base layer came back as the result of a call that asked for an
\* installed sqfstar.
C26_Witness ==
    /\ SqfsCalled
    /\ sqArgs.converter = "sqfstar"
    /\ "sqfstar" \in sqArgs.installed
    /\ sqArgs.base.mt = squashfsLayerMediaType
    /\ sqRet.err = errNil
    /\ sqRet.layer = sqArgs.base

-----------------------------------------------------------------------------
(* Claims about SetLayer.                                                   *)

\* This step is Apply(base, SetLayer(i, l)) returning.
ApplySetLayerReturns ==
    /\ napply' = napply + 1
    /\ op'.call = "Apply"
    /\ Len(op'.ms) = 1
    /\ op'.ms[1].f = "SetLayer"

\* C27: Apply(base, SetLayer(i, l)) on a base image with n layers succeeds
\* and makes l the layer at position i when 0 <= i < n, and returns the
\* invalid-layer-index error for every other integer i.
C27_SetLayerIndex ==
    [][ApplySetLayerReturns =>
        LET i == op'.ms[1].i
            n == Len(baseImg.layers)
        IN  IF 0 <= i /\ i < n
            THEN /\ err' = errNil
                 /\ phase' = "built"
                 /\ img'.overrides[i + 1] = op'.ms[1].l
            ELSE /\ err' = errInvalidLayerIndex
                 /\ phase' = "failed"]_vars

-----------------------------------------------------------------------------
(* Claims about one UpdateRootIndex on a file system that can fail.         *)

UpdReturned == upd.pc = "done"

\* C28: UpdateRootIndex removes the scratch directory it created on every
\* exit path: whenever it has returned, with success or with an error from
\* caching blobs, deleting objects, writing blobs or writing the root index,
\* no scratch directory is left.
C28_ScratchRemoved == UpdReturned => ~scratch.exists

\* UpdateRootIndex created its scratch directory, wrote a blob into the
\* container file, and then returned an input/output error.
C28_Witness ==
    /\ UpdReturned
    /\ upd.cacheDir # ""
    /\ upd.err = errIO
    /\ \E h \in StoredDigests(sifFile) : h \notin StoredDigests(upd.before)
    /\ ~scratch.exists


\* Every descriptor referred to from the root index has its blob in the file.
RootClosed(s) ==
    RootIndex(s).err = errNil =>
        \A k \in DOMAIN RootIndex(s).ix.raw.refs :
            Bytes(s, RootIndex(s).ix.raw.refs[k].Digest).err = errNil

\* C30: UpdateRootIndex is failure-atomic: when it has returned an error, the
\* root index and the stored blobs are the same as before the call, so the
\* file still has exactly one root index and every descriptor referred to
\* from the root has its blob present.
C30_FailureAtomic ==
    (UpdReturned /\ upd.err # errNil) =>
        /\ sifFile = upd.before
        /\ RootIndex(sifFile).err = errNil
        /\ RootClosed(sifFile)

-----------------------------------------------------------------------------
(* Claims about the hard links of the squashed output.                      *)

\* The output entry at position k is a hard link to an entry written before it.
LinksBack(k) == \E j \in 1..(k - 1) : Clean(tw[j].Name) = Clean(tw[k].Linkname)

\* C29: every hard-link entry of the squashed output has a linkname equal to
\* the name of an entry that appears earlier in the same output, also when
\* two or more surviving hard links point at a target that a newer layer
\* removed or shadowed.
C29_LinksPointBack ==
    SquashDone => \A k \in DOMAIN tw : tw[k].Typeflag = TypeLink => LinksBack(k)

-----------------------------------------------------------------------------
(* Claims about the stored blobs as a mapping from digest to bytes.         *)

\* No two OCI.Blob objects of the file have the same digest.
OneBlobPerDigest(s) == \A o \in DOMAIN s : WithDataType(DataOCIBlob, o) => s[o] = 1

\* C31: after Write or a successful UpdateRootIndex, no two stored OCI-blob
\* objects have the same digest, also when several images or indexes
\* reachable from the new root share a layer, config or manifest that was
\* not in the store before.
C31_OneBlobPerDigest ==
    (last.call \in {"Write", "UpdateRootIndex"} /\ last.err = errNil) =>
        OneBlobPerDigest(sifFile)

-----------------------------------------------------------------------------
(* Claims about the termination of squash.                                  *)

\* C32: squashing terminates on every finite sequence of finite layers,
\* including layers whose entry names are absolute paths or otherwise never
\* reduce to "." under repeated parent-directory steps: every run of squash
\* reaches the state in which all layers are committed.
C32_SquashTerminates == <>SquashDone

-----------------------------------------------------------------------------
(* Claims about the hard links that squash keeps.                           *)

\* The entry k of layer i is a hard link that no newer layer removes or
\* replaces, and whose target exists in the same or an older layer.
VisibleLink(i, k) ==
    LET h == ls[i][k]
    IN  /\ h.Typeflag = TypeLink
        /\ SurvivesFrom(ls, i, Len(ls), Clean(h.Name))
        /\ \A j \in (i + 1)..Len(ls) : ~Occurs(ls[j], Clean(h.Name))
        /\ \E j \in 1..i : Occurs(ls[j], Clean(h.Linkname))

\* C33: no visible hard link is lost by squashing: every hard link of a
\* selected layer that no newer layer removes or replaces, and whose target
\* exists in the same or an older selected layer, appears in the squashed
\* output, as a hard link or promoted to a full entry, whether its linkname
\* is spelled in cleaned form (a/b/foo) or not (./a/b/foo).
C33_NoLinkLost ==
    SquashDone =>
        \A i \in DOMAIN ls : \A k \in DOMAIN ls[i] :
            VisibleLink(i, k) => Written(Clean(ls[i][k].Name)) # {}

-----------------------------------------------------------------------------
(* Claims about indexes with entries that are neither image nor index.      *)

Modifications ==
    {"UpdateRootIndex", "AppendImage", "AppendIndex", "ReplaceImage", "ReplaceIndex",
     "RemoveManifests"}

\* C34: every index that Write accepts and persists can afterwards be
\* modified through the store: UpdateRootIndex, AppendImage, AppendIndex,
\* ReplaceImage, ReplaceIndex and RemoveManifests do not fail because the
\* root index, or a nested index, refers to an entry whose media type is
\* neither image nor index.
C34_OtherEntriesCanBeModified ==
    last.call \in Modifications => last.err # errUnexpectedMediaType

-----------------------------------------------------------------------------
(* Claims about the manifest of a mutated image.                            *)

ManifestMatchesLayers(im) ==
    /\ Len(im.manifest.Layers) = Len(Layers(im))
    /\ \A k \in DOMAIN im.manifest.Layers :
           k \in DOMAIN Layers(im) /\ im.manifest.Layers[k].Digest = Layers(im)[k].digest

\* C35: for every mutated image, the manifest's layer descriptors and layers()
\* have the same length and, at every position, the digest of the manifest's
\* layer descriptor equals the digest of the layer that layers() returns.
C35_ManifestLayersAreLayers == phase = "computed" => ManifestMatchesLayers(img)

-----------------------------------------------------------------------------
(* Claims about nil matchers.                                               *)

\* C36: a nil matcher passed to a store query (FindManifests, Index, Image)
\* behaves exactly like a matcher that selects every root-index entry.
C36_NilMatchesAll ==
    /\ FindManifests(sifFile, NilMatcher) = FindManifests(sifFile, matchAll)
    /\ Index(sifFile, NilMatcher) = Index(sifFile, matchAll)
    /\ Image(sifFile, NilMatcher) = Image(sifFile, matchAll)

-----------------------------------------------------------------------------
(* Claims about Get on the SIF source.                                      *)

\* The digest and platform options as getMatcher applies them.
DigestOption(o, d) == o.digest = NilDigest \/ d.Digest = o.digest
PlatformOption(o, d) ==
    (o.platform # NilPlatform /\ IsImage(d.MediaType)) =>
        (d.Platform # NilPlatform /\ DescriptorSatisfies(d, o.platform))

ReferenceSelects(o, d) ==
    RefName(d) = o.reference /\ DigestOption(o, d) /\ PlatformOption(o, d)

\* C37: Get with a reference option selects a root-index entry if and only if
\* the entry's org.opencontainers.image.ref.name annotation equals the name of
\* the requested reference, and the entry satisfies the digest and platform
\* options given.
C37_ReferenceSelectsByName ==
    (get.pc = "done" /\ get.opts.reference # NilReference) =>
        get.selected = SelectSeq(get.entries, LAMBDA d : ReferenceSelects(get.opts, d))

-----------------------------------------------------------------------------
(* Claims about the config descriptor of a mutated image.                   *)

\* The media type of the last SetConfig among ms, if there is one.
LastSetConfig(ms) ==
    {ms[k].configType : k \in {k \in DOMAIN ms :
        /\ ms[k].f = "SetConfig"
        /\ \A j \in DOMAIN ms : j > k => ms[j].f # "SetConfig"}}

ConfigDescriptorOf(im) ==
    /\ im.manifest.Config.Digest = SHA256(im.rawConfigFile)
    /\ im.manifest.Config.Size = SizeOf(im.rawConfigFile)

\* C38: for every mutated image, the manifest's config descriptor is
\* consistent with the emitted config: its digest and size are the SHA-256 and
\* the length of raw_config_file(), and whenever SetConfig was applied with
\* media type t the descriptor's media type is t.
C38_ConfigDescriptorConsistent ==
    phase = "computed" =>
        /\ ConfigDescriptorOf(img)
        /\ \A t \in LastSetConfig(op.ms) : img.manifest.Config.MediaType = t

=============================================================================
